---- MODULE Spec2Model ----
(***************************************************************************)
(* State-machine model of the multi-estate InheritanceDistribution         *)
(* contract and the ERC7984 confidential token it pays heirs with.         *)
(*                                                                         *)
(* Every external call is one atomic step (the EVM applies a transaction   *)
(* all-or-nothing): a call that reverts leaves the storage unchanged and   *)
(* only records its error in the observation variable `last`.              *)
(*                                                                         *)
(* The FHE library is external to the repository.  Ciphertext handles are  *)
(* opaque identifiers; `plain` is the plaintext shadow of every handle     *)
(* and `acl` the grant registry.  Every handle-producing operation yields  *)
(* a fresh handle, named by the contract whose call produced it, the       *)
(* estate or account the call works on and a sequence number; add/sub are  *)
(* total and wrap modulo 2^UintBits.                                       *)
(***************************************************************************)
EXTENDS Integers, Sequences, FiniteSets, TLC

----------------------------------------------------------------------------
(* Bounds *)

\* number of estates createEstate may create in one behaviour
MaxEstates == 2
\* number of ciphertext handles the calls of InheritanceDistribution may
\* produce in one behaviour
MaxHandles == 8
\* number of ciphertext handles the calls of the token may produce
MaxTokenHandles == 7
\* width of the encrypted unsigned integers (euint64 scaled down)
UintBits == 2
\* the last block.timestamp a behaviour reaches; deployment is at 1
MaxTime == 2
MaxDepth == 2
\* the loadEstateData calls of the page in flight at one time
MaxPending == 2

Modulus == 2 ^ UintBits

----------------------------------------------------------------------------
(* Addresses *)

ZeroAddr == "0x0"
\* address(this) of the InheritanceDistribution contract
Dist == "dist"
\* address(token)
Token == "token"
\* externally owned accounts: extcodesize = 0
EOAs == {"a1"}
\* third-party contracts that may call the ledger and receive tokens
HeirContracts == {"c1"}

\* every msg.sender of an external transaction
Users == EOAs \cup HeirContracts
Addrs == {ZeroAddr, Dist, Token} \cup Users
\* heir arguments passed to addHeir / removeHeir / getAllocation
HeirArgs == {ZeroAddr} \cup Users
\* estate ids passed as arguments
EstateIds == 0 .. MaxEstates - 1
\* plaintext amounts supplied by callers
Amounts == {1, Modulus - 1}
\* operator arguments passed to setOperator
OperatorArgs == {ZeroAddr} \cup Users
\* expiry timestamps passed to setOperator
Untils == 1 .. MaxTime
\* recipients of token transfers
Recipients == Addrs
\* bytes payloads, as their length and their first 32-byte word: the empty
\* payload, a payload one byte short of a word, and abi.encode(id) for the
\* ids of the estates and for one id past them
Payloads == {[len |-> 0, word |-> 0], [len |-> 31, word |-> 0]}
            \cup {[len |-> 32, word |-> e] : e \in 0 .. MaxEstates}
\* the uninitialised euint64 (bytes32(0))
NoHandle == <<"none", 0, 0>>

VARIABLES
    nextEstateId,     \* uint256 nextEstateId
    estates,          \* mapping(uint256 => Estate)
    estateHeirs,      \* mapping(uint256 => address[])
    isHeirOf,         \* mapping(uint256 => mapping(address => bool))
    allocations,      \* mapping(uint256 => mapping(address => euint64))
    claimed,          \* mapping(uint256 => mapping(address => bool))
    estateBalances,   \* mapping(uint256 => euint64)
    totalAllocated,   \* mapping(uint256 => euint64)
    executorEstates,  \* mapping(address => uint256[])
    heirEstates,      \* mapping(address => uint256[])
    balances,         \* ERC7984._balances
    operators,        \* ERC7984._operators
    owner,            \* InheritanceToken.owner
    now,              \* block.timestamp
    plain,            \* plaintext of every handle handed out
    acl,              \* set of <<handle, principal>> grants
    nextHandle,       \* per contract and estate/account, the next fresh handle
    last              \* the last external call and its outcome

ledgerVars == <<nextEstateId, estates, estateHeirs, isHeirOf, allocations,
                claimed, estateBalances, totalAllocated, executorEstates,
                heirEstates>>
tokenVars == <<balances, operators, owner, now>>
fheVars == <<plain, acl, nextHandle>>
vars == <<ledgerVars, tokenVars, fheVars, last>>

----------------------------------------------------------------------------
(* FHE layer: a state record threaded through the statements of a call *)

FHE == [plain |-> plain, acl |-> acl, next |-> nextHandle]

\* plaintext behind a handle; the uninitialised handle reads as 0
Plain(f, h) == IF h = NoHandle THEN 0 ELSE f.plain[h]

\* FHE.isInitialized
IsInitialized(h) == h # NoHandle

\* the handle the next handle-producing operation of contract c returns
\* when it works on estate or account k
Fresh(f, c, k) == <<c, k, f.next[<<c, k>>]>>

\* a new handle Fresh(f, c, k) holding plaintext v
NewHandle(f, c, k, v) ==
    [f EXCEPT !.plain = (Fresh(f, c, k) :> (v % Modulus)) @@ @,
              !.next[<<c, k>>] = @ + 1]

\* FHE.asEuint64(v) called by contract c: the result is Fresh(f, c, k)
AsEuint64(f, c, k, v) == NewHandle(f, c, k, v)

\* FHE.fromExternal(ct, proof) for a valid proof: the result is
\* Fresh(f, c, k)
FromExternal(f, c, k, v) == NewHandle(f, c, k, v)

\* FHE.add(a, b) called by contract c: the result is Fresh(f, c, k)
FheAdd(f, c, k, a, b) == NewHandle(f, c, k, Plain(f, a) + Plain(f, b))

\* FHE.sub(a, b) called by contract c: the result is Fresh(f, c, k)
FheSub(f, c, k, a, b) ==
    NewHandle(f, c, k, Plain(f, a) - Plain(f, b) + Modulus)

\* mutant: a grant to p replaces the grants p held on other handles
Allow_Exclusive(f, h, p) ==
    [f EXCEPT !.acl = {g \in @ : g[2] # p} \cup {<<h, p>>}]

\* FHE.allow(h, p) / FHE.allowThis(h) with p = address(this)
Allow(f, h, p) == [f EXCEPT !.acl = @ \cup {<<h, p>>}]

\* the handles contract c may produce in one behaviour
HandleBudget(c) == IF c = Token THEN MaxTokenHandles ELSE MaxHandles

\* the estates or accounts the handles of contract c are produced for
HandleKeys(c) == IF c = Token THEN Addrs ELSE EstateIds

\* the number of handles contract c has produced
RECURSIVE ProducedFor(_, _, _)
ProducedFor(f, c, keys) ==
    IF keys = {} THEN 0
    ELSE LET k == CHOOSE x \in keys : TRUE
         IN (f.next[<<c, k>>] - 1) + ProducedFor(f, c, keys \ {k})

\* after the call the contract c is still within its budget
WithinBudget(f, c) == ProducedFor(f, c, HandleKeys(c)) <= HandleBudget(c)

----------------------------------------------------------------------------
(* Initial state: both contracts freshly deployed, the token by "a1" *)

EmptyEstate == [executor |-> ZeroAddr, finalized |-> FALSE, active |-> FALSE]

Init ==
    /\ nextEstateId = 0
    /\ estates = [e \in EstateIds |-> EmptyEstate]
    /\ estateHeirs = [e \in EstateIds |-> <<>>]
    /\ isHeirOf = [e \in EstateIds |-> [a \in Addrs |-> FALSE]]
    /\ allocations = [e \in EstateIds |-> [a \in Addrs |-> NoHandle]]
    /\ claimed = [e \in EstateIds |-> [a \in Addrs |-> FALSE]]
    /\ estateBalances = [e \in EstateIds |-> NoHandle]
    /\ totalAllocated = [e \in EstateIds |-> NoHandle]
    /\ executorEstates = [a \in Addrs |-> <<>>]
    /\ heirEstates = [a \in Addrs |-> <<>>]
    /\ balances = [a \in Addrs |-> NoHandle]
    /\ operators = [a \in Addrs |-> [b \in Addrs |-> 0]]
    /\ owner = "a1"
    /\ now = 1
    /\ plain = <<>>
    /\ acl = {}
    /\ nextHandle = [o \in ({Dist} \X EstateIds) \cup ({Token} \X Addrs)
                         |-> 1]
    /\ last = [op |-> "deploy", sender |-> "a1", estateId |-> 0,
               heir |-> ZeroAddr, result |-> "ok", ret |-> NoHandle]

Call(op, sender, e, heir, result, ret) ==
    [op |-> op, sender |-> sender, estateId |-> e, heir |-> heir,
     result |-> result, ret |-> ret]

\* the view functions of InheritanceDistribution that are modelled as calls
ViewOps == {"getMyAllocation", "getAllocation", "getContractBalance",
            "getTotalAllocated"}

\* The last call changed storage (or was the deployment).  A reverted
\* transaction and a view leave the storage as it was and only record their
\* outcome in `last`: whatever call can follow one can follow the state it
\* was made in, with the same effect.  Calls are therefore explored from
\* the states a storage-changing call entered, and a behaviour up to its
\* first call that changes nothing.
AfterStorageChange == last.result = "ok" /\ last.op \notin ViewOps

\* A call that changes no storage: a reverted transaction (rolled back, the
\* caller sees the error) or a view.
NoStorageChange(call) ==
    /\ AfterStorageChange
    /\ last' = call
    /\ UNCHANGED <<ledgerVars, tokenVars, fheVars>>

Reverts(call) == NoStorageChange(call)

Returns(call) == NoStorageChange(call)

----------------------------------------------------------------------------
(* InheritanceDistribution.createEstate *)

\* mutant: createEstate does not advance nextEstateId
CreateEstate_ReusesId(sender) ==
    /\ AfterStorageChange
    /\ nextEstateId < MaxEstates
    /\ LET estateId == nextEstateId
           f0 == FHE
           bal == Fresh(f0, Dist, estateId)
           f1 == AsEuint64(f0, Dist, estateId, 0)
           tot == Fresh(f1, Dist, estateId)
           f2 == AsEuint64(f1, Dist, estateId, 0)
           f3 == Allow(Allow(f2, bal, Dist), bal, sender)
           f4 == Allow(Allow(f3, tot, Dist), tot, sender)
       IN /\ WithinBudget(f4, Dist)
          /\ nextEstateId' = nextEstateId
          /\ estates' = [estates EXCEPT ![estateId] =
                 [executor |-> sender, finalized |-> FALSE, active |-> TRUE]]
          /\ estateBalances' = [estateBalances EXCEPT ![estateId] = bal]
          /\ totalAllocated' = [totalAllocated EXCEPT ![estateId] = tot]
          /\ executorEstates' =
                 [executorEstates EXCEPT ![sender] = Append(@, estateId)]
          /\ plain' = f4.plain /\ acl' = f4.acl /\ nextHandle' = f4.next
          /\ last' = Call("createEstate", sender, estateId, ZeroAddr, "ok",
                          NoHandle)
    /\ UNCHANGED <<estateHeirs, isHeirOf, allocations, claimed, heirEstates,
                   tokenVars>>

CreateEstate(sender) ==
    /\ AfterStorageChange
    /\ nextEstateId < MaxEstates
    /\ LET estateId == nextEstateId
           f0 == FHE
           bal == Fresh(f0, Dist, estateId)
           f1 == AsEuint64(f0, Dist, estateId, 0)
           tot == Fresh(f1, Dist, estateId)
           f2 == AsEuint64(f1, Dist, estateId, 0)
           f3 == Allow(Allow(f2, bal, Dist), bal, sender)
           f4 == Allow(Allow(f3, tot, Dist), tot, sender)
       IN /\ WithinBudget(f4, Dist)
          /\ nextEstateId' = nextEstateId + 1
          /\ estates' = [estates EXCEPT ![estateId] =
                 [executor |-> sender, finalized |-> FALSE, active |-> TRUE]]
          /\ estateBalances' = [estateBalances EXCEPT ![estateId] = bal]
          /\ totalAllocated' = [totalAllocated EXCEPT ![estateId] = tot]
          /\ executorEstates' =
                 [executorEstates EXCEPT ![sender] = Append(@, estateId)]
          /\ plain' = f4.plain /\ acl' = f4.acl /\ nextHandle' = f4.next
          /\ last' = Call("createEstate", sender, estateId, ZeroAddr, "ok",
                          NoHandle)
    /\ UNCHANGED <<estateHeirs, isHeirOf, allocations, claimed, heirEstates,
                   tokenVars>>

----------------------------------------------------------------------------
(* Modifiers of InheritanceDistribution, as the error they revert with *)

\* mutant: the onlyEstateExecutor modifier is missing
ExecutorOpenActiveError_NoOnlyExecutor(sender, e) ==
    IF estates[e].finalized THEN "EstateAlreadyFinalized"
    ELSE IF ~estates[e].active THEN "EstateNotActive"
    ELSE "ok"

\* mutant: the notFinalized modifier is missing
ExecutorOpenActiveError_NoNotFinalized(sender, e) ==
    IF sender # estates[e].executor THEN "OnlyExecutor"
    ELSE IF ~estates[e].active THEN "EstateNotActive"
    ELSE "ok"

\* mutant: notFinalized runs before onlyEstateExecutor
ExecutorOpenActiveError_FinalizedFirst(sender, e) ==
    IF estates[e].finalized THEN "EstateAlreadyFinalized"
    ELSE IF sender # estates[e].executor THEN "OnlyExecutor"
    ELSE IF ~estates[e].active THEN "EstateNotActive"
    ELSE "ok"

\* onlyEstateExecutor, notFinalized, estateActive in the order they are listed
\* on addHeir, removeHeir and finalizeEstate
ExecutorOpenActiveError(sender, e) ==
    IF sender # estates[e].executor THEN "OnlyExecutor"
    ELSE IF estates[e].finalized THEN "EstateAlreadyFinalized"
    ELSE IF ~estates[e].active THEN "EstateNotActive"
    ELSE "ok"

\* mutant: addHeir lacks the notFinalized modifier
AddHeirError_NoNotFinalized(sender, e, heir) ==
    IF sender # estates[e].executor THEN "OnlyExecutor"
    ELSE IF ~estates[e].active THEN "EstateNotActive"
    ELSE IF heir = ZeroAddr THEN "ZeroAddress"
    ELSE IF isHeirOf[e][heir] THEN "AlreadyHeir"
    ELSE "ok"

\* mutant: addHeir lacks the AlreadyHeir check
AddHeirError_NoAlreadyHeir(sender, e, heir) ==
    IF sender # estates[e].executor THEN "OnlyExecutor"
    ELSE IF estates[e].finalized THEN "EstateAlreadyFinalized"
    ELSE IF ~estates[e].active THEN "EstateNotActive"
    ELSE IF heir = ZeroAddr THEN "ZeroAddress"
    ELSE "ok"

\* the require-style checks of addHeir after its modifiers
AddHeirError(sender, e, heir) ==
    IF ExecutorOpenActiveError(sender, e) # "ok"
        THEN ExecutorOpenActiveError(sender, e)
    ELSE IF heir = ZeroAddr THEN "ZeroAddress"
    ELSE IF isHeirOf[e][heir] THEN "AlreadyHeir"
    ELSE "ok"

\* the check of removeHeir after its modifiers
RemoveHeirError(sender, e, heir) ==
    IF ExecutorOpenActiveError(sender, e) # "ok"
        THEN ExecutorOpenActiveError(sender, e)
    ELSE IF ~isHeirOf[e][heir] THEN "NotHeir"
    ELSE "ok"

----------------------------------------------------------------------------
(* Array helpers *)

\* index of the first occurrence of v in s, 0 when absent
RECURSIVE IndexFrom(_, _, _)
IndexFrom(s, v, i) ==
    IF i > Len(s) THEN 0
    ELSE IF s[i] = v THEN i
    ELSE IndexFrom(s, v, i + 1)

\* mutant: the loop overwrites the found slot but does not pop
RemoveFromArray_NoPop(arr, value) ==
    LET i == IndexFrom(arr, value, 1)
    IN IF i = 0 THEN arr ELSE [arr EXCEPT ![i] = arr[Len(arr)]]

\* mutant: the element is removed and the ones behind it move up
RemoveFromArray_Shift(arr, value) ==
    LET i == IndexFrom(arr, value, 1)
    IN IF i = 0 THEN arr
       ELSE SubSeq(arr, 1, i - 1) \o SubSeq(arr, i + 1, Len(arr))

\* the loop of removeHeir and _removeFromArray: overwrite the first
\* occurrence with the last element, pop, break
RemoveFromArray(arr, value) ==
    LET i == IndexFrom(arr, value, 1)
    IN IF i = 0 THEN arr
       ELSE SubSeq([arr EXCEPT ![i] = arr[Len(arr)]], 1, Len(arr) - 1)

----------------------------------------------------------------------------
(* InheritanceDistribution.addHeir *)

\* mutant: the allocation is granted to every account that uses the ledger
GrantAllocation_ToEveryUser(f, allocation, heir, executor) ==
    [f EXCEPT !.acl = @ \cup {<<allocation, p>> : p \in Users \cup {Dist}}]

\* mutant: FHE.allow(allocation, heir) is missing
GrantAllocation_NotToHeir(f, allocation, heir, executor) ==
    Allow(Allow(f, allocation, Dist), allocation, executor)

\* the ACL grants addHeir issues on the new allocation handle
GrantAllocation(f, allocation, heir, executor) ==
    Allow(Allow(Allow(f, allocation, Dist), allocation, heir),
          allocation, executor)

\* totalAllocated[estateId] = FHE.add(totalAllocated[estateId], allocation)
TotalAfterAdd(f, e, allocation) ==
    FheAdd(f, Dist, e, totalAllocated[e], allocation)

AddHeir(sender, e, heir, amount) ==
    /\ AfterStorageChange
    /\ LET err == AddHeirError(sender, e, heir)
           f0 == FHE
           allocation == Fresh(f0, Dist, e)
           f1 == FromExternal(f0, Dist, e, amount)
           total == Fresh(f1, Dist, e)
           f2 == TotalAfterAdd(f1, e, allocation)
           f3 == GrantAllocation(f2, allocation, heir, estates[e].executor)
           f4 == Allow(Allow(f3, total, Dist), total, estates[e].executor)
       IN IF err = "ok"
          THEN /\ WithinBudget(f4, Dist)
               /\ last' = Call("addHeir", sender, e, heir, "ok", NoHandle)
               /\ allocations' = [allocations EXCEPT ![e][heir] = allocation]
               /\ isHeirOf' = [isHeirOf EXCEPT ![e][heir] = TRUE]
               /\ estateHeirs' = [estateHeirs EXCEPT ![e] = Append(@, heir)]
               /\ totalAllocated' = [totalAllocated EXCEPT ![e] = total]
               /\ heirEstates' = [heirEstates EXCEPT ![heir] = Append(@, e)]
               /\ plain' = f4.plain /\ acl' = f4.acl /\ nextHandle' = f4.next
               /\ UNCHANGED <<nextEstateId, estates, claimed, estateBalances,
                              executorEstates, tokenVars>>
          ELSE Reverts(Call("addHeir", sender, e, heir, err, NoHandle))

----------------------------------------------------------------------------
(* InheritanceDistribution.removeHeir *)

\* mutant: removeHeir leaves the running total as it was
TotalAfterRemove_NoSub(f, e, heir) ==
    FheSub(f, Dist, e, totalAllocated[e], NoHandle)

\* totalAllocated[estateId] =
\*     FHE.sub(totalAllocated[estateId], allocations[estateId][heir])
TotalAfterRemove(f, e, heir) ==
    FheSub(f, Dist, e, totalAllocated[e], allocations[e][heir])

RemoveHeir(sender, e, heir) ==
    /\ AfterStorageChange
    /\ LET err == RemoveHeirError(sender, e, heir)
           f0 == FHE
           total == Fresh(f0, Dist, e)
           f1 == TotalAfterRemove(f0, e, heir)
           f2 == Allow(Allow(f1, total, Dist), total, estates[e].executor)
           cleared == Fresh(f2, Dist, e)
           f3 == AsEuint64(f2, Dist, e, 0)
       IN IF err = "ok"
          THEN /\ WithinBudget(f3, Dist)
               /\ last' = Call("removeHeir", sender, e, heir, "ok", NoHandle)
               /\ totalAllocated' = [totalAllocated EXCEPT ![e] = total]
               /\ allocations' = [allocations EXCEPT ![e][heir] = cleared]
               /\ isHeirOf' = [isHeirOf EXCEPT ![e][heir] = FALSE]
               /\ estateHeirs' =
                      [estateHeirs EXCEPT ![e] = RemoveFromArray(@, heir)]
               /\ heirEstates' =
                      [heirEstates EXCEPT ![heir] = RemoveFromArray(@, e)]
               /\ plain' = f3.plain /\ acl' = f3.acl /\ nextHandle' = f3.next
               /\ UNCHANGED <<nextEstateId, estates, claimed, estateBalances,
                              executorEstates, tokenVars>>
          ELSE Reverts(Call("removeHeir", sender, e, heir, err, NoHandle))

----------------------------------------------------------------------------
(* InheritanceDistribution.finalizeEstate *)

\* mutant: finalizing an estate finalizes every estate of its executor
FinalizeEstate_AllOfExecutor(sender, e) ==
    /\ AfterStorageChange
    /\ LET err == ExecutorOpenActiveError(sender, e)
       IN IF err = "ok"
          THEN /\ last' = Call("finalizeEstate", sender, e, ZeroAddr, "ok",
                               NoHandle)
               /\ estates' = [x \in EstateIds |->
                                 IF estates[x].executor = sender
                                 THEN [estates[x] EXCEPT !.finalized = TRUE]
                                 ELSE estates[x]]
               /\ UNCHANGED <<nextEstateId, estateHeirs, isHeirOf,
                              allocations, claimed, estateBalances,
                              totalAllocated, executorEstates, heirEstates,
                              tokenVars, fheVars>>
          ELSE Reverts(Call("finalizeEstate", sender, e, ZeroAddr, err,
                             NoHandle))

\* mutant: finalizing an estate also deactivates it
FinalizeEstate_Deactivates(sender, e) ==
    /\ AfterStorageChange
    /\ LET err == ExecutorOpenActiveError(sender, e)
       IN IF err = "ok"
          THEN /\ last' = Call("finalizeEstate", sender, e, ZeroAddr, "ok",
                               NoHandle)
               /\ estates' = [estates EXCEPT ![e].finalized = TRUE,
                                             ![e].active = FALSE]
               /\ UNCHANGED <<nextEstateId, estateHeirs, isHeirOf,
                              allocations, claimed, estateBalances,
                              totalAllocated, executorEstates, heirEstates,
                              tokenVars, fheVars>>
          ELSE Reverts(Call("finalizeEstate", sender, e, ZeroAddr, err,
                             NoHandle))

FinalizeEstate(sender, e) ==
    /\ AfterStorageChange
    /\ LET err == ExecutorOpenActiveError(sender, e)
       IN IF err = "ok"
          THEN /\ last' = Call("finalizeEstate", sender, e, ZeroAddr, "ok",
                               NoHandle)
               /\ estates' = [estates EXCEPT ![e].finalized = TRUE]
               /\ UNCHANGED <<nextEstateId, estateHeirs, isHeirOf,
                              allocations, claimed, estateBalances,
                              totalAllocated, executorEstates, heirEstates,
                              tokenVars, fheVars>>
          ELSE Reverts(Call("finalizeEstate", sender, e, ZeroAddr, err,
                             NoHandle))

----------------------------------------------------------------------------
(* ERC7984 token *)

\* ERC7984._isContract: extcodesize(account) > 0
IsContract(account) == account \in {Dist, Token} \cup HeirContracts

\* mutant: a holder is its own operator only by a stored approval
IsOperator_StoredOnly(holder, spender) == operators[holder][spender] > now

\* mutant: an approval still counts at its expiry timestamp
IsOperator_AtExpiry(holder, spender) ==
    IF holder = spender THEN TRUE
    ELSE operators[holder][spender] >= now

\* ERC7984.isOperator
IsOperator(holder, spender) ==
    IF holder = spender THEN TRUE
    ELSE operators[holder][spender] > now

\* the bytes payload handed to a receiver hook: its length and first word
EmptyData == [len |-> 0, word |-> 0]

\* mutant: the payload is decoded before the caller is looked at
OnERC7984ReceivedError_PayloadFirst(sender, data) ==
    IF data.len < 32 THEN "MissingEstateId"
    ELSE IF sender # Token THEN "InvalidToken"
    ELSE IF data.word \notin EstateIds
            \/ estates[data.word].executor = ZeroAddr THEN "EstateNotFound"
    ELSE "ok"

\* the checks of InheritanceDistribution.onERC7984Received, as the error
\* it reverts with
OnERC7984ReceivedError(sender, data) ==
    IF sender # Token THEN "InvalidToken"
    ELSE IF data.len < 32 THEN "MissingEstateId"
    ELSE IF data.word \notin EstateIds
            \/ estates[data.word].executor = ZeroAddr THEN "EstateNotFound"
    ELSE "ok"

\* mutant: the answer of the recipient's hook is not looked at
CheckOnERC7984Received_Unchecked(to, data, ack) == TRUE

\* ERC7984._checkOnERC7984Received: TRUE when the recipient's hook returns
\* the selector.  The token contract has no such function; a third-party
\* contract acknowledges or not (ack) as its own code decides.
CheckOnERC7984Received(to, data, ack) ==
    IF to = Dist THEN OnERC7984ReceivedError(Token, data) = "ok"
    ELSE IF to = Token THEN FALSE
    ELSE ack

\* the lazy initialisation at the head of _transfer, _mint and _burn
InitBalance(t, account) ==
    IF IsInitialized(t.balances[account]) THEN t
    ELSE LET h == Fresh(t.fhe, Token, account)
             f1 == AsEuint64(t.fhe, Token, account, 0)
             f2 == Allow(Allow(f1, h, Token), h, account)
         IN [t EXCEPT !.balances[account] = h, !.fhe = f2]

\* mutant: a debit larger than the balance takes nothing
Debit_NoWrap(t, from, amount) ==
    LET h == Fresh(t.fhe, Token, from)
        taken == IF Plain(t.fhe, amount) > Plain(t.fhe, t.balances[from])
                 THEN NoHandle ELSE amount
        f1 == FheSub(t.fhe, Token, from, t.balances[from], taken)
        f2 == Allow(Allow(f1, h, Token), h, from)
    IN [t EXCEPT !.balances[from] = h, !.fhe = f2]

\* the debit of _transfer: _balances[from] = FHE.sub(_balances[from], amount)
Debit(t, from, amount) ==
    LET h == Fresh(t.fhe, Token, from)
        f1 == FheSub(t.fhe, Token, from, t.balances[from], amount)
        f2 == Allow(Allow(f1, h, Token), h, from)
    IN [t EXCEPT !.balances[from] = h, !.fhe = f2]

\* the credit of _transfer: _balances[to] = FHE.add(_balances[to], amount)
Credit(t, to, amount) ==
    LET h == Fresh(t.fhe, Token, to)
        f1 == FheAdd(t.fhe, Token, to, t.balances[to], amount)
        f2 == Allow(Allow(f1, h, Token), h, to)
    IN [t EXCEPT !.balances[to] = h, !.fhe = f2]

\* mutant: _transfer does not call the receiver hook
Transfer_NoHook(t, from, to, amount, ack) ==
    [state |-> Credit(Debit(InitBalance(InitBalance(t, from), to), from,
                            amount), to, amount),
     ok |-> TRUE]

\* ERC7984._transfer on the token state t = [balances, fhe]: the state after
\* the balance updates and whether the receiver check passed
Transfer(t, from, to, amount, ack) ==
    LET t1 == InitBalance(t, from)
        t2 == InitBalance(t1, to)
        t3 == Debit(t2, from, amount)
        t4 == Credit(t3, to, amount)
    IN [state |-> t4,
        ok |-> IF IsContract(to)
               THEN CheckOnERC7984Received(to, EmptyData, ack)
               ELSE TRUE]

\* mutant: confidentialTransferFrom does not ask isOperator
TransferFromError_NoOperatorCheck(caller, from, to) ==
    IF to = ZeroAddr THEN "ZeroAddress" ELSE "ok"

\* the checks of ERC7984.confidentialTransferFrom before _transfer
TransferFromError(caller, from, to) ==
    IF to = ZeroAddr THEN "ZeroAddress"
    ELSE IF ~IsOperator(from, caller) THEN "NotOperator"
    ELSE "ok"

\* ERC7984.confidentialTransferFrom called by `caller`: the error it reverts
\* with, or "ok" and the token state after it
ConfidentialTransferFrom(t, caller, from, to, amount, ack) ==
    LET err == TransferFromError(caller, from, to)
        tr == Transfer(t, from, to, amount, ack)
    IN IF err # "ok" THEN [result |-> err, state |-> t]
       ELSE IF ~tr.ok THEN [result |-> "TransferToNonReceiver", state |-> t]
       ELSE [result |-> "ok", state |-> tr.state]

----------------------------------------------------------------------------
(* InheritanceDistribution.claimAllocation *)

\* mutant: the isEstateFinalized modifier is missing
ClaimError_NoFinalizedCheck(sender, e) ==
    IF ~estates[e].active THEN "EstateNotActive"
    ELSE IF ~isHeirOf[e][sender] THEN "NotHeir"
    ELSE IF claimed[e][sender] THEN "AlreadyClaimed"
    ELSE "ok"

\* mutant: the AlreadyClaimed check is missing
ClaimError_NoClaimedCheck(sender, e) ==
    IF ~estates[e].finalized THEN "EstateNotFinalized"
    ELSE IF ~estates[e].active THEN "EstateNotActive"
    ELSE IF ~isHeirOf[e][sender] THEN "NotHeir"
    ELSE "ok"

\* isEstateFinalized, estateActive and the two checks of the body
ClaimError(sender, e) ==
    IF ~estates[e].finalized THEN "EstateNotFinalized"
    ELSE IF ~estates[e].active THEN "EstateNotActive"
    ELSE IF ~isHeirOf[e][sender] THEN "NotHeir"
    ELSE IF claimed[e][sender] THEN "AlreadyClaimed"
    ELSE "ok"

\* the amount claimAllocation asks the token to pay
ClaimAmount(e, sender) == allocations[e][sender]

ClaimAllocation(sender, e, ack) ==
    /\ AfterStorageChange
    /\ LET err == ClaimError(sender, e)
           amount == ClaimAmount(e, sender)
           pay == ConfidentialTransferFrom([balances |-> balances, fhe |-> FHE],
                                        Dist, Dist, sender, amount, ack)
           result == IF err # "ok" THEN err ELSE pay.result
       IN IF result = "ok"
          THEN /\ WithinBudget(pay.state.fhe, Token)
               /\ last' = Call("claimAllocation", sender, e, sender, "ok",
                               NoHandle)
               /\ claimed' = [claimed EXCEPT ![e][sender] = TRUE]
               /\ balances' = pay.state.balances
               /\ plain' = pay.state.fhe.plain
               /\ acl' = pay.state.fhe.acl
               /\ nextHandle' = pay.state.fhe.next
               /\ UNCHANGED <<nextEstateId, estates, estateHeirs, isHeirOf,
                              allocations, estateBalances, totalAllocated,
                              executorEstates, heirEstates, operators, owner,
                              now>>
          ELSE Reverts(Call("claimAllocation", sender, e, sender, result,
                             NoHandle))

----------------------------------------------------------------------------
(* Read paths of InheritanceDistribution: the error or the handle returned *)

Reverted(err) == [result |-> err, ret |-> NoHandle]
Returned(h) == [result |-> "ok", ret |-> h]

GetMyAllocation(sender, e) ==
    IF estates[e].executor = ZeroAddr THEN Reverted("EstateNotFound")
    ELSE IF ~isHeirOf[e][sender] THEN Reverted("NotHeir")
    ELSE Returned(allocations[e][sender])

\* mutant: the executor check of getAllocation is skipped for current heirs
GetAllocation_HeirsMayRead(sender, e, heir) ==
    IF sender # estates[e].executor /\ ~isHeirOf[e][sender]
    THEN Reverted("OnlyExecutor")
    ELSE Returned(allocations[e][heir])

GetAllocation(sender, e, heir) ==
    IF sender # estates[e].executor THEN Reverted("OnlyExecutor")
    ELSE Returned(allocations[e][heir])

GetContractBalance(sender, e) ==
    IF sender # estates[e].executor THEN Reverted("OnlyExecutor")
    ELSE Returned(estateBalances[e])

GetTotalAllocated(sender, e) ==
    IF sender # estates[e].executor THEN Reverted("OnlyExecutor")
    ELSE Returned(totalAllocated[e])

\* getHeirCount
GetHeirCount(e) == Len(estateHeirs[e])

CallGetMyAllocation(sender, e) ==
    LET r == GetMyAllocation(sender, e)
    IN Returns(Call("getMyAllocation", sender, e, sender, r.result, r.ret))

CallGetAllocation(sender, e, heir) ==
    LET r == GetAllocation(sender, e, heir)
    IN Returns(Call("getAllocation", sender, e, heir, r.result, r.ret))

CallGetContractBalance(sender, e) ==
    LET r == GetContractBalance(sender, e)
    IN Returns(Call("getContractBalance", sender, e, ZeroAddr, r.result,
                    r.ret))

CallGetTotalAllocated(sender, e) ==
    LET r == GetTotalAllocated(sender, e)
    IN Returns(Call("getTotalAllocated", sender, e, ZeroAddr, r.result,
                    r.ret))

----------------------------------------------------------------------------
(* External entry points of the token *)

\* a call of the token and its outcome; `amount` is the euint64 the call
\* handed to _transfer, `hook` what became of the receiver hook
TokenCall(op, sender, from, to, amount, data, result) ==
    [op |-> op, sender |-> sender, from |-> from, to |-> to,
     amount |-> amount, data |-> data, hook |-> "none", result |-> result]

\* the receiver hook at the end of _transfer: not called when the recipient
\* has no code, else acknowledged or not
HookOutcome(to, ack) ==
    IF ~IsContract(to) THEN "none"
    ELSE IF CheckOnERC7984Received(to, EmptyData, ack) THEN "acknowledged"
    ELSE "refused"

\* a call that reached _transfer and its outcome
TransferCall(op, sender, from, to, amount, ack, result) ==
    [TokenCall(op, sender, from, to, amount, EmptyData, result)
         EXCEPT !.hook = HookOutcome(to, ack)]

\* block.timestamp advances
Tick ==
    /\ AfterStorageChange
    /\ now < MaxTime
    /\ now' = now + 1
    /\ last' = TokenCall("tick", ZeroAddr, ZeroAddr, ZeroAddr, NoHandle,
                         EmptyData, "ok")
    /\ UNCHANGED <<ledgerVars, balances, operators, owner, fheVars>>

\* ERC7984.setOperator
SetOperator(sender, operator, until) ==
    /\ AfterStorageChange
    /\ IF operator = ZeroAddr
       THEN Reverts([op |-> "setOperator", sender |-> sender,
                     operator |-> operator, until |-> until,
                     result |-> "ZeroAddress"])
       ELSE /\ operators' = [operators EXCEPT ![sender][operator] = until]
            /\ last' = [op |-> "setOperator", sender |-> sender,
                        operator |-> operator, until |-> until,
                        result |-> "ok"]
            /\ UNCHANGED <<ledgerVars, balances, owner, now, fheVars>>

\* the token state after a successful call
TokenStateBecomes(t) ==
    /\ WithinBudget(t.fhe, Token)
    /\ balances' = t.balances
    /\ plain' = t.fhe.plain
    /\ acl' = t.fhe.acl
    /\ nextHandle' = t.fhe.next
    /\ UNCHANGED <<ledgerVars, operators, owner, now>>

\* ERC7984.confidentialTransfer of the encrypted input `value`
ConfidentialTransfer(sender, to, value, ack) ==
    /\ AfterStorageChange
    /\ LET amount == Fresh(FHE, Token, sender)
           f1 == FromExternal(FHE, Token, sender, value)
           tr == Transfer([balances |-> balances, fhe |-> f1], sender, to,
                          amount, ack)
           result == IF to = ZeroAddr THEN "ZeroAddress"
                     ELSE IF ~tr.ok THEN "TransferToNonReceiver"
                     ELSE "ok"
       IN IF result = "ok"
          THEN /\ TokenStateBecomes(tr.state)
               /\ last' = TransferCall("confidentialTransfer", sender,
                                       sender, to, amount, ack, "ok")
          ELSE IF result = "ZeroAddress"
          THEN Reverts(TokenCall("confidentialTransfer", sender, sender, to,
                                 NoHandle, EmptyData, result))
          ELSE Reverts(TransferCall("confidentialTransfer", sender, sender,
                                    to, NoHandle, ack, result))

\* the euint64 handles a caller passes to confidentialTransferFrom: the
\* uninitialised handle and the current balance handles
AmountHandles == {NoHandle} \cup {balances[a] : a \in Addrs}

\* ERC7984.confidentialTransferFrom called by an account
CallConfidentialTransferFrom(caller, from, to, amount, ack) ==
    /\ AfterStorageChange
    /\ LET r == ConfidentialTransferFrom([balances |-> balances, fhe |-> FHE],
                                         caller, from, to, amount, ack)
       IN IF r.result = "ok"
          THEN /\ TokenStateBecomes(r.state)
               /\ last' = TransferCall("confidentialTransferFrom", caller,
                                       from, to, amount, ack, "ok")
          ELSE IF r.result \in {"ZeroAddress", "NotOperator"}
          THEN Reverts(TokenCall("confidentialTransferFrom", caller, from, to,
                                 amount, EmptyData, r.result))
          ELSE Reverts(TransferCall("confidentialTransferFrom", caller, from,
                                    to, amount, ack, r.result))

\* confidentialTransferAndCall(to, encryptedAmount, inputProof, data), the
\* call the front end deposits with: ERC7984 and InheritanceToken define no
\* such function and no fallback, so the call reverts
ConfidentialTransferAndCall(sender, to, value, data) ==
    Reverts(TokenCall("confidentialTransferAndCall", sender, sender, to,
                      NoHandle, data, "NoSuchFunction"))

----------------------------------------------------------------------------
(* InheritanceDistribution.onERC7984Received *)

\* the hook called by `sender` with the euint64 `amount` and the payload
\* `data`, on the ledger state [estateBalances, fhe]: the error it reverts
\* with, or "ok" and the state after it
OnERC7984Received(d, sender, amount, data) ==
    LET err == OnERC7984ReceivedError(sender, data)
        estateId == data.word
        h == Fresh(d.fhe, Dist, estateId)
        f1 == FheAdd(d.fhe, Dist, estateId, d.estateBalances[estateId],
                     amount)
        f2 == Allow(Allow(f1, h, Dist), h, estates[estateId].executor)
    IN IF err # "ok" THEN [result |-> err, state |-> d]
       ELSE [result |-> "ok",
             state |-> [estateBalances |->
                            [d.estateBalances EXCEPT ![estateId] = h],
                        fhe |-> f2]]

\* a hook call and its outcome
HookCall(sender, from, amount, data, result) ==
    TokenCall("onERC7984Received", sender, from, Dist, amount, data, result)

\* the ledger state after a successful hook call
HookStateBecomes(d) ==
    /\ WithinBudget(d.fhe, Dist)
    /\ estateBalances' = d.estateBalances
    /\ plain' = d.fhe.plain
    /\ acl' = d.fhe.acl
    /\ nextHandle' = d.fhe.next
    /\ UNCHANGED <<nextEstateId, estates, estateHeirs, isHeirOf, allocations,
                   claimed, totalAllocated, executorEstates, heirEstates,
                   tokenVars>>

\* onERC7984Received called directly by an account
CallOnERC7984Received(sender, from, amount, data) ==
    /\ AfterStorageChange
    /\ LET r == OnERC7984Received([estateBalances |-> estateBalances,
                                   fhe |-> FHE], sender, amount, data)
       IN IF r.result = "ok"
          THEN /\ HookStateBecomes(r.state)
               /\ last' = HookCall(sender, from, amount, data, "ok")
          ELSE Reverts(HookCall(sender, from, amount, data, r.result))

\* onERC7984Received called by the configured token, whatever IERC7984
\* implementation the constructor was given: the token hands over the
\* amount of the transfer, a ciphertext of `value`, and the payload
TokenCallsOnERC7984Received(from, value, data) ==
    /\ AfterStorageChange
    /\ LET amount == Fresh(FHE, Token, from)
           f1 == FromExternal(FHE, Token, from, value)
           r == OnERC7984Received([estateBalances |-> estateBalances,
                                   fhe |-> f1], Token, amount, data)
       IN IF r.result = "ok"
          THEN /\ HookStateBecomes(r.state)
               /\ WithinBudget(r.state.fhe, Token)
               /\ last' = HookCall(Token, from, amount, data, "ok")
          ELSE Reverts(HookCall(Token, from, NoHandle, data, r.result))

----------------------------------------------------------------------------
Next ==
    \/ \E sender \in Users : CreateEstate(sender)
    \/ \E sender \in Users, e \in EstateIds, heir \in HeirArgs,
          amount \in Amounts : AddHeir(sender, e, heir, amount)
    \/ \E sender \in Users, e \in EstateIds, heir \in HeirArgs :
          RemoveHeir(sender, e, heir)
    \/ \E sender \in Users, e \in EstateIds : FinalizeEstate(sender, e)
    \/ \E sender \in Users, e \in EstateIds, ack \in BOOLEAN :
          ClaimAllocation(sender, e, ack)
    \/ \E sender \in Users, e \in EstateIds : CallGetMyAllocation(sender, e)
    \/ \E sender \in Users, e \in EstateIds, heir \in HeirArgs :
          CallGetAllocation(sender, e, heir)
    \/ \E sender \in Users, e \in EstateIds :
          CallGetContractBalance(sender, e)
    \/ \E sender \in Users, e \in EstateIds :
          CallGetTotalAllocated(sender, e)

Spec == Init /\ [][Next]_vars

\* what the hook of a recipient may answer: a third-party contract accepts
\* or not as its own code decides; the answer of any other recipient is
\* fixed by its code
Acks(to) == IF to \in HeirContracts THEN BOOLEAN ELSE {FALSE}

\* the token on its own: transfers between the accounts
TokenNext ==
    \/ \E sender \in Users, to \in Recipients, value \in Amounts :
          \E ack \in Acks(to) : ConfidentialTransfer(sender, to, value, ack)
    \/ \E caller \in Users, from \in Users, to \in Recipients,
          amount \in AmountHandles : \E ack \in Acks(to) :
          CallConfidentialTransferFrom(caller, from, to, amount, ack)

TokenSpec == Init /\ [][TokenNext]_vars

\* operator approvals: a holder approves and revokes, time passes, and
\* the accounts try to move the holders' funds
OperatorNext ==
    \/ Tick
    \/ \E sender \in EOAs, operator \in OperatorArgs, until \in Untils :
          SetOperator(sender, operator, until)
    \/ \E caller \in Users, from \in Users, to \in HeirArgs :
          \E ack \in Acks(to) :
          CallConfidentialTransferFrom(caller, from, to, NoHandle, ack)

OperatorSpec == Init /\ [][OperatorNext]_vars

\* deposits: the calls by which an account can try to move tokens into an
\* estate
DepositNext ==
    \/ \E sender \in Users : CreateEstate(sender)
    \/ \E sender \in Users, value \in Amounts :
          ConfidentialTransfer(sender, Dist, value, FALSE)
    \/ \E sender \in Users, amount \in AmountHandles :
          CallConfidentialTransferFrom(sender, sender, Dist, amount, FALSE)
    \/ \E sender \in Users, value \in Amounts, data \in Payloads :
          ConfidentialTransferAndCall(sender, Dist, value, data)
    \/ \E sender \in Users, from \in Users, amount \in AmountHandles,
          data \in Payloads :
          CallOnERC7984Received(sender, from, amount, data)

DepositSpec == Init /\ [][DepositNext]_vars

\* the receiver hook, called by accounts and by the configured token,
\* among the operations of the ledger on the estates it pays into
HookNext ==
    \/ \E sender \in Users : CreateEstate(sender)
    \/ \E sender \in Users, from \in EOAs, amount \in AmountHandles,
          data \in Payloads :
          CallOnERC7984Received(sender, from, amount, data)
    \/ \E from \in EOAs, value \in Amounts, data \in Payloads :
          TokenCallsOnERC7984Received(from, value, data)
    \/ \E sender \in EOAs, e \in EstateIds, heir \in EOAs :
          AddHeir(sender, e, heir, 1)
    \/ \E sender \in EOAs, e \in EstateIds, heir \in EOAs :
          RemoveHeir(sender, e, heir)
    \/ \E sender \in EOAs, e \in EstateIds : FinalizeEstate(sender, e)
    \/ \E sender \in EOAs, e \in EstateIds :
          ClaimAllocation(sender, e, FALSE)

HookSpec == Init /\ [][HookNext]_vars

\* The ledger after a1: createEstate(..) and a1: addHeir(0, c1, 2^64 - 1),
\* taken as the first state so that the handles of the behaviour are all
\* left for the calls that follow.  The four handles these two calls
\* produced carry the sequence numbers below 1.
HeirInit ==
    /\ nextEstateId = 1
    /\ estates = [e \in EstateIds |->
           IF e = 0
           THEN [executor |-> "a1", finalized |-> FALSE, active |-> TRUE]
           ELSE EmptyEstate]
    /\ estateHeirs = [e \in EstateIds |-> IF e = 0 THEN <<"c1">> ELSE <<>>]
    /\ isHeirOf = [e \in EstateIds |-> [a \in Addrs |-> e = 0 /\ a = "c1"]]
    /\ allocations = [e \in EstateIds |-> [a \in Addrs |->
           IF e = 0 /\ a = "c1" THEN <<Dist, 0, -1>> ELSE NoHandle]]
    /\ claimed = [e \in EstateIds |-> [a \in Addrs |-> FALSE]]
    /\ estateBalances =
           [e \in EstateIds |-> IF e = 0 THEN <<Dist, 0, -3>> ELSE NoHandle]
    /\ totalAllocated =
           [e \in EstateIds |-> IF e = 0 THEN <<Dist, 0, 0>> ELSE NoHandle]
    /\ executorEstates = [a \in Addrs |-> IF a = "a1" THEN <<0>> ELSE <<>>]
    /\ heirEstates = [a \in Addrs |-> IF a = "c1" THEN <<0>> ELSE <<>>]
    /\ balances = [a \in Addrs |-> NoHandle]
    /\ operators = [a \in Addrs |-> [b \in Addrs |-> 0]]
    /\ owner = "a1"
    /\ now = 1
    /\ plain = (<<Dist, 0, -3>> :> 0) @@ (<<Dist, 0, -2>> :> 0)
               @@ (<<Dist, 0, -1>> :> Modulus - 1)
               @@ (<<Dist, 0, 0>> :> Modulus - 1)
    /\ acl = ({<<Dist, 0, -3>>, <<Dist, 0, -2>>, <<Dist, 0, -1>>,
               <<Dist, 0, 0>>} \X {Dist, "a1"})
             \cup {<<<<Dist, 0, -1>>, "c1">>}
    /\ nextHandle = [o \in ({Dist} \X EstateIds) \cup ({Token} \X Addrs)
                         |-> 1]
    /\ last = Call("addHeir", "a1", 0, "c1", "ok", NoHandle)

\* estates created and the heirs of an estate added, removed, added again,
\* read
HeirNext ==
    \/ \E sender \in Users : CreateEstate(sender)
    \/ \E sender \in Users, e \in EstateIds, heir \in HeirArgs,
          amount \in Amounts : AddHeir(sender, e, heir, amount)
    \/ \E sender \in Users, e \in EstateIds, heir \in HeirArgs :
          RemoveHeir(sender, e, heir)
    \/ \E sender \in Users, e \in EstateIds : FinalizeEstate(sender, e)
    \/ \E sender \in Users, e \in EstateIds : CallGetMyAllocation(sender, e)

HeirSpec == HeirInit /\ [][HeirNext]_vars

----------------------------------------------------------------------------
(* Re-entrancy: the receiver hook of a third-party contract, run step by   *)
(* step.  _checkOnERC7984Received calls the recipient after _transfer has  *)
(* written both balances; the recipient's code may call claimAllocation or *)
(* the token again before it answers.  While a hook runs, `last` holds the *)
(* call in progress: the frames of the hooks entered and not yet left,     *)
(* each with the storage its call would be rolled back to.                 *)

\* the storage a revert of a call restores
Snapshot == [claimed |-> claimed, balances |-> balances, fhe |-> FHE]

\* a receiver hook of a third-party contract is running
InHook == last.result = "pending"

\* the hooks entered and not yet left, the innermost last
Frames == IF InHook THEN last.stack ELSE <<>>

\* the frame of the hook that is running
Running == last.stack[Len(last.stack)]

\* the frame of a hook: the call that reached _transfer, the transfer it
\* made and the storage at the start of that call
Frame(op, e, from, to, amount, saved) ==
    [op |-> op, estateId |-> e, from |-> from, to |-> to, amount |-> amount,
     saved |-> saved]

\* a call made from inside a hook that has come back, and its outcome
InnerCall(op, sender, e, to, result) ==
    [op |-> op, sender |-> sender, estateId |-> e, to |-> to,
     result |-> result]

NoInnerCall == InnerCall("none", ZeroAddr, 0, ZeroAddr, "ok")

\* the storage becomes s; only claimAllocation and the token's transfers
\* run inside a hook, and they write these variables alone
StorageBecomes(s) ==
    /\ WithinBudget(s.fhe, Token)
    /\ claimed' = s.claimed
    /\ balances' = s.balances
    /\ plain' = s.fhe.plain
    /\ acl' = s.fhe.acl
    /\ nextHandle' = s.fhe.next
    /\ UNCHANGED <<nextEstateId, estates, estateHeirs, isHeirOf, allocations,
                   estateBalances, totalAllocated, executorEstates,
                   heirEstates, operators, owner, now>>

\* the top-level call as it is reported when the hook it waits for refuses
Refused(call) ==
    IF call.op = "claimAllocation"
    THEN [call EXCEPT !.result = "TransferToNonReceiver"]
    ELSE [call EXCEPT !.result = "TransferToNonReceiver",
                      !.hook = "refused", !.amount = NoHandle]

\* _checkOnERC7984Received calls the hook of frame.to: the writes s of the
\* call so far are in storage, and the hook starts.  `call` is the
\* top-level call of the transaction.
EntersHook(call, frame, s) ==
    /\ Len(Frames) < MaxDepth
    /\ StorageBecomes(s)
    /\ last' = [op |-> "hook", result |-> "pending", call |-> call,
                stack |-> Append(Frames, frame), inner |-> NoInnerCall]

\* claimAllocation up to the call of the heir's hook: the error it reverts
\* with, or "ok" with the storage after `claimed` and _transfer are written
ClaimWrites(sender, e) ==
    LET err == ClaimError(sender, e)
        terr == TransferFromError(Dist, Dist, sender)
        tr == Transfer([balances |-> balances, fhe |-> FHE], Dist, sender,
                       ClaimAmount(e, sender), TRUE)
    IN IF err # "ok" THEN [result |-> err, state |-> Snapshot]
       ELSE IF terr # "ok" THEN [result |-> terr, state |-> Snapshot]
       ELSE [result |-> "ok",
             state |-> [claimed |-> [claimed EXCEPT ![e][sender] = TRUE],
                        balances |-> tr.state.balances,
                        fhe |-> tr.state.fhe]]

\* confidentialTransfer up to the call of the recipient's hook
TransferWrites(sender, to, value) ==
    LET amount == Fresh(FHE, Token, sender)
        f1 == FromExternal(FHE, Token, sender, value)
        tr == Transfer([balances |-> balances, fhe |-> f1], sender, to,
                       amount, TRUE)
    IN IF to = ZeroAddr THEN [result |-> "ZeroAddress", state |-> Snapshot]
       ELSE [result |-> "ok",
             state |-> [claimed |-> claimed,
                        balances |-> tr.state.balances,
                        fhe |-> tr.state.fhe]]

\* claimAllocation as a transaction: when the heir is a third-party
\* contract and the checks pass, its hook is entered; any other claim has
\* no code to run in between
ClaimAllocationEnters(sender, e) ==
    /\ AfterStorageChange
    /\ LET w == ClaimWrites(sender, e)
       IN IF sender \in HeirContracts /\ w.result = "ok"
          THEN EntersHook(Call("claimAllocation", sender, e, sender, "ok",
                               NoHandle),
                          Frame("claimAllocation", e, Dist, sender,
                                ClaimAmount(e, sender), Snapshot),
                          w.state)
          ELSE ClaimAllocation(sender, e, FALSE)

\* confidentialTransfer as a transaction, likewise
ConfidentialTransferEnters(sender, to, value) ==
    /\ AfterStorageChange
    /\ LET w == TransferWrites(sender, to, value)
       IN IF to \in HeirContracts /\ w.result = "ok"
          THEN EntersHook(TransferCall("confidentialTransfer", sender,
                                       sender, to, Fresh(FHE, Token, sender),
                                       TRUE, "ok"),
                          Frame("confidentialTransfer", 0, sender, to,
                                Fresh(FHE, Token, sender), Snapshot),
                          w.state)
          ELSE ConfidentialTransfer(sender, to, value, FALSE)

\* the call made inside the hook came back: its outcome is noted, and the
\* storage is as the call left it (s) or, when it reverted, untouched
InnerCallReturns(inner, s) ==
    /\ last' = [last EXCEPT !.inner = inner]
    /\ IF inner.result = "ok" THEN StorageBecomes(s)
       ELSE UNCHANGED <<ledgerVars, tokenVars, fheVars>>

\* the running hook calls claimAllocation(e); msg.sender is the contract
\* whose hook it is
HookCallsClaimAllocation(e) ==
    /\ InHook
    /\ LET sender == Running.to
           w == ClaimWrites(sender, e)
       IN IF w.result = "ok"
          THEN EntersHook(last.call,
                          Frame("claimAllocation", e, Dist, sender,
                                ClaimAmount(e, sender), Snapshot),
                          w.state)
          ELSE InnerCallReturns(InnerCall("claimAllocation", sender, e,
                                          sender, w.result), Snapshot)

\* the running hook calls confidentialTransfer(to, value) of the token
HookCallsConfidentialTransfer(to, value) ==
    /\ InHook
    /\ LET sender == Running.to
           w == TransferWrites(sender, to, value)
           result == IF w.result # "ok" THEN w.result
                     ELSE IF IsContract(to)
                             /\ ~CheckOnERC7984Received(to, EmptyData, FALSE)
                     THEN "TransferToNonReceiver"
                     ELSE "ok"
       IN IF to \in HeirContracts /\ w.result = "ok"
          THEN EntersHook(last.call,
                          Frame("confidentialTransfer", 0, sender, to,
                                Fresh(FHE, Token, sender), Snapshot),
                          w.state)
          ELSE InnerCallReturns(InnerCall("confidentialTransfer", sender, 0,
                                          to, result), w.state)

\* mutant: a refused hook fails the call but its writes stay
HookReturns_NoRollback(ack) ==
    /\ InHook
    /\ LET top == Running
           rest == SubSeq(last.stack, 1, Len(last.stack) - 1)
           result == IF ack THEN "ok" ELSE "TransferToNonReceiver"
       IN /\ UNCHANGED <<ledgerVars, tokenVars, fheVars>>
          /\ last' = IF rest = <<>>
                     THEN IF ack THEN last.call ELSE Refused(last.call)
                     ELSE [last EXCEPT
                               !.stack = rest,
                               !.inner = InnerCall(top.op, top.from,
                                                   top.estateId, top.to,
                                                   result)]

\* the running hook answers.  With the selector (ack) the call that waited
\* for it goes on and ends: claimAllocation and confidentialTransfer write
\* nothing after the hook.  With anything else, or a revert, the token
\* reverts with TransferToNonReceiver and the whole call that made the
\* transfer is rolled back; the caller of that call is the enclosing hook,
\* which goes on, or nobody, and the transaction has failed.
HookReturns(ack) ==
    /\ InHook
    /\ LET top == Running
           rest == SubSeq(last.stack, 1, Len(last.stack) - 1)
           result == IF ack THEN "ok" ELSE "TransferToNonReceiver"
       IN /\ IF ack THEN UNCHANGED <<ledgerVars, tokenVars, fheVars>>
             ELSE StorageBecomes(top.saved)
          /\ last' = IF rest = <<>>
                     THEN IF ack THEN last.call ELSE Refused(last.call)
                     ELSE [last EXCEPT
                               !.stack = rest,
                               !.inner = InnerCall(top.op, top.from,
                                                   top.estateId, top.to,
                                                   result)]

\* The ledger and the token after "a1" has called createEstate twice,
\* addHeir(0, "c1", enc(Modulus - 1)), addHeir(1, "c1", enc(1)) and
\* confidentialTransfer("c1", enc(1)), acknowledged by c1.  The handles of
\* these calls are numbered up to 0, so that the handle bounds are left to
\* the calls that follow.
SeededEstates == {0, 1}

SeededAllocation(e) == IF e = 0 THEN Modulus - 1 ELSE 1

ReentryInit ==
    /\ nextEstateId = 2
    /\ estates = [e \in EstateIds |->
           IF e \in SeededEstates
           THEN [executor |-> "a1", finalized |-> FALSE, active |-> TRUE]
           ELSE EmptyEstate]
    /\ estateHeirs =
           [e \in EstateIds |-> IF e \in SeededEstates THEN <<"c1">> ELSE <<>>]
    /\ isHeirOf =
           [e \in EstateIds |-> [a \in Addrs |-> e \in SeededEstates /\ a = "c1"]]
    /\ allocations = [e \in EstateIds |-> [a \in Addrs |->
           IF e \in SeededEstates /\ a = "c1" THEN <<Dist, e, -1>>
           ELSE NoHandle]]
    /\ claimed = [e \in EstateIds |-> [a \in Addrs |-> FALSE]]
    /\ estateBalances = [e \in EstateIds |->
           IF e \in SeededEstates THEN <<Dist, e, -3>> ELSE NoHandle]
    /\ totalAllocated = [e \in EstateIds |->
           IF e \in SeededEstates THEN <<Dist, e, 0>> ELSE NoHandle]
    /\ executorEstates = [a \in Addrs |-> IF a = "a1" THEN <<0, 1>> ELSE <<>>]
    /\ heirEstates = [a \in Addrs |-> IF a = "c1" THEN <<0, 1>> ELSE <<>>]
    /\ balances = [a \in Addrs |->
           IF a \in {"a1", "c1"} THEN <<Token, a, 0>> ELSE NoHandle]
    /\ operators = [a \in Addrs |-> [b \in Addrs |-> 0]]
    /\ owner = "a1"
    /\ now = 1
    /\ plain = [h \in ({Dist} \X SeededEstates \X (-3 .. 0))
                      \cup {<<Token, "a1", -2>>, <<Token, "a1", -1>>,
                            <<Token, "a1", 0>>, <<Token, "c1", -1>>,
                            <<Token, "c1", 0>>} |->
                   IF h[1] = Dist
                   THEN IF h[3] >= -1 THEN SeededAllocation(h[2]) ELSE 0
                   ELSE IF h = <<Token, "a1", -2>> THEN 1
                   ELSE IF h = <<Token, "a1", 0>> THEN Modulus - 1
                   ELSE IF h = <<Token, "c1", 0>> THEN 1
                   ELSE 0]
    /\ acl = (({Dist} \X SeededEstates \X (-3 .. 0)) \X {Dist, "a1"})
             \cup {<<<<Dist, e, -1>>, "c1">> : e \in SeededEstates}
             \cup ({<<Token, "a1", -1>>, <<Token, "a1", 0>>} \X {Token, "a1"})
             \cup ({<<Token, "c1", -1>>, <<Token, "c1", 0>>} \X {Token, "c1"})
    /\ nextHandle = [o \in ({Dist} \X EstateIds) \cup ({Token} \X Addrs)
                         |-> 1]
    /\ last = TransferCall("confidentialTransfer", "a1", "a1", "c1",
                           <<Token, "a1", -2>>, TRUE, "ok")

ReentryNext ==
    \/ \E sender \in Users, e \in EstateIds : FinalizeEstate(sender, e)
    \/ \E sender \in Users, e \in EstateIds : ClaimAllocationEnters(sender, e)
    \/ \E sender \in Users, to \in Users, value \in Amounts :
          ConfidentialTransferEnters(sender, to, value)
    \/ \E e \in EstateIds : HookCallsClaimAllocation(e)
    \/ \E to \in Users \cup {Dist}, value \in Amounts :
          HookCallsConfidentialTransfer(to, value)
    \/ \E ack \in BOOLEAN : HookReturns(ack)

ReentrySpec == ReentryInit /\ [][ReentryNext]_vars

----------------------------------------------------------------------------
(* The heir list of one estate: the executor adds and removes heirs of    *)
(* estate 0, any address but the zero address                             *)

\* the addresses the executor names as heirs of the list
ListHeirs == Addrs \ {ZeroAddr}

ListNext ==
    \/ \E heir \in ListHeirs : AddHeir("a1", 0, heir, 1)
    \/ \E heir \in ListHeirs : RemoveHeir("a1", 0, heir)

ListSpec == HeirInit /\ [][ListNext]_vars

----------------------------------------------------------------------------
(* The single-estate contract InheritanceDistribution, as functions on its *)
(* storage s: executor, finalized, active, heirs, isHeir, claimed, and the *)
(* plaintexts of allocations, contractBalance and totalAllocated.  Each    *)
(* function gives the error the call reverts with, or "ok" and the storage *)
(* after it.                                                               *)

\* onlyExecutor, notFinalized, estateActive
SingleExecutorOpenActiveError(s, sender) ==
    IF sender # s.executor THEN "OnlyExecutor"
    ELSE IF s.finalized THEN "EstateAlreadyFinalized"
    ELSE IF ~s.active THEN "EstateNotActive"
    ELSE "ok"

SingleOutcome(err, s, after) ==
    IF err = "ok" THEN [result |-> "ok", state |-> after]
    ELSE [result |-> err, state |-> s]

\* addHeir(heir, encryptedAllocation, inputProof) with the input `value`
SingleAddHeir(s, sender, heir, value) ==
    LET mod == SingleExecutorOpenActiveError(s, sender)
        err == IF mod # "ok" THEN mod
               ELSE IF heir = ZeroAddr THEN "ZeroAddress"
               ELSE IF s.isHeir[heir] THEN "AlreadyHeir"
               ELSE "ok"
    IN SingleOutcome(err, s,
           [s EXCEPT !.allocations[heir] = value % Modulus,
                     !.isHeir[heir] = TRUE,
                     !.heirs = Append(@, heir),
                     !.totalAllocated = (@ + value) % Modulus])

\* removeHeir(heir)
SingleRemoveHeir(s, sender, heir) ==
    LET mod == SingleExecutorOpenActiveError(s, sender)
        err == IF mod # "ok" THEN mod
               ELSE IF ~s.isHeir[heir] THEN "NotHeir"
               ELSE "ok"
    IN SingleOutcome(err, s,
           [s EXCEPT !.totalAllocated =
                         (@ - s.allocations[heir] + Modulus) % Modulus,
                     !.allocations[heir] = 0,
                     !.isHeir[heir] = FALSE,
                     !.heirs = RemoveFromArray(@, heir)])

\* finalizeEstate()
SingleFinalizeEstate(s, sender) ==
    SingleOutcome(SingleExecutorOpenActiveError(s, sender), s,
                  [s EXCEPT !.finalized = TRUE])

\* claimAllocation(): the checks, claimed = true, and the token's
\* confidentialTransferFrom(address(this), msg.sender, amount), which
\* reverts when the hook of a heir with code does not acknowledge
SingleClaimAllocation(s, sender, ack) ==
    LET err == IF ~s.finalized THEN "EstateNotFinalized"
               ELSE IF ~s.active THEN "EstateNotActive"
               ELSE IF ~s.isHeir[sender] THEN "NotHeir"
               ELSE IF s.claimed[sender] THEN "AlreadyClaimed"
               ELSE IF TransferFromError(Dist, Dist, sender) # "ok"
               THEN TransferFromError(Dist, Dist, sender)
               ELSE IF IsContract(sender)
                       /\ ~CheckOnERC7984Received(sender, EmptyData, ack)
               THEN "TransferToNonReceiver"
               ELSE "ok"
    IN SingleOutcome(err, s, [s EXCEPT !.claimed[sender] = TRUE])

\* onERC7984Received(operator, from, token, amount, data): the payload is
\* not looked at
SingleOnERC7984Received(s, sender, amount) ==
    SingleOutcome(IF sender # Token THEN "InvalidToken" ELSE "ok", s,
                  [s EXCEPT !.contractBalance = (@ + amount) % Modulus])

\* a transfer of the token to the single-estate contract that passed the
\* token's own checks (tokenErr = "ok"): _transfer calls the hook with the
\* empty payload, msg.sender being the token
SingleTokenTransferIn(s, tokenErr, amount) ==
    IF tokenErr # "ok" THEN [result |-> tokenErr, state |-> s]
    ELSE SingleOnERC7984Received(s, Token, amount)

\* the storage of the single-estate contract that corresponds to estate e
\* of the multi-estate contract
SingleView(e) ==
    [executor |-> estates[e].executor,
     finalized |-> estates[e].finalized,
     active |-> estates[e].active,
     heirs |-> estateHeirs[e],
     isHeir |-> isHeirOf[e],
     claimed |-> claimed[e],
     allocations |-> [a \in Addrs |-> Plain(FHE, allocations[e][a])],
     contractBalance |-> Plain(FHE, estateBalances[e]),
     totalAllocated |-> Plain(FHE, totalAllocated[e])]

----------------------------------------------------------------------------
(* The transactions that go through.  A reverted transaction leaves the    *)
(* storage as it was and its caller free to call again, so a behaviour of  *)
(* the contracts over time is the sequence of its successful calls.  An    *)
(* heir without code that wants its allocation keeps calling              *)
(* claimAllocation: the call is taken whenever it stays possible.          *)

\* the call of the step did not revert
Succeeds == last'.result = "ok"

\* claimAllocation(e) by an account without code, going through: the checks
\* pass, the token pays, and no hook runs in between
ClaimGoesThrough(heir, e) ==
    /\ AfterStorageChange
    /\ \E w \in {ClaimWrites(heir, e)} :
          /\ w.result = "ok"
          /\ last' = Call("claimAllocation", heir, e, heir, "ok", NoHandle)
          /\ StorageBecomes(w.state)

ClaimNext ==
    \/ \E sender \in Users, e \in EstateIds, heir \in Users,
          amount \in Amounts : AddHeir(sender, e, heir, amount) /\ Succeeds
    \/ \E sender \in Users, e \in EstateIds, heir \in Users :
          RemoveHeir(sender, e, heir) /\ Succeeds
    \/ \E sender \in Users, e \in EstateIds :
          FinalizeEstate(sender, e) /\ Succeeds
    \/ \E sender \in HeirContracts, e \in EstateIds :
          ClaimAllocation(sender, e, TRUE) /\ Succeeds
    \/ \E heir \in EOAs, e \in EstateIds : ClaimGoesThrough(heir, e)

ClaimSpec ==
    /\ HeirInit
    /\ [][ClaimNext]_vars
    /\ \A heir \in EOAs, e \in EstateIds : WF_vars(ClaimGoesThrough(heir, e))

----------------------------------------------------------------------------
(* The front end: the useInheritance hook of the multi-estate page.  Once  *)
(* the page is open, `last` holds the React state of the hook and the      *)
(* loadEstateData calls that are waiting for an answer of the node.  Each  *)
(* await of loadEstateData is a point where another callback may run.      *)
(* loadMyEstates, which fills the two estate lists, is left out: it reads  *)
(* and writes none of the state below except isLoading and error.          *)

\* null, for selectedEstateId and for currentEstate
NoSelection == -1
NoEstateInfo ==
    [id |-> NoSelection, executor |-> ZeroAddr, finalized |-> FALSE,
     active |-> FALSE]

\* the callbacks of the hook
UiOps == {"mount", "selectEstate", "loadEstateData"}

\* the page is open
Mounted == last.op \in UiOps

\* a loadEstateData(estateId) call in flight: the contract call it awaits
\* and its locals isExecutor and isHeir
Request(estateId, awaiting, isExecutor, isHeir) ==
    [estateId |-> estateId, awaiting |-> awaiting,
     isExecutor |-> isExecutor, isHeir |-> isHeir]

\* request i of the calls in flight awaits the contract call `view`
Awaits(i, view) ==
    /\ Mounted
    /\ i \in DOMAIN last.pending
    /\ last.pending[i].awaiting = view

\* a sequence without its i-th element
Without(s, i) == SubSeq(s, 1, i - 1) \o SubSeq(s, i + 1, Len(s))

\* the contracts are untouched by the page
PageOnly == UNCHANGED <<ledgerVars, tokenVars, fheVars>>

\* the hook is rendered for the first time for the connected account, after
\* the transactions made so far
Mount(address) ==
    /\ AfterStorageChange
    /\ last' = [op |-> "mount", result |-> "ui", address |-> address,
                selectedEstateId |-> NoSelection,
                currentEstate |-> NoEstateInfo, currentRole |-> "none",
                heirs |-> <<>>, hasClaimed |-> FALSE, isLoading |-> FALSE,
                error |-> "none", pending |-> <<>>]
    /\ PageOnly

\* loadEstateData(estateId) up to its first await, on the React state u
LoadEstateData(u, estateId) ==
    [u EXCEPT !.isLoading = TRUE, !.error = "none",
              !.pending = Append(@, Request(estateId, "getEstateInfo",
                                            FALSE, FALSE))]

\* selectEstate(estateId); estateId may be null
SelectEstate(estateId) ==
    /\ Mounted
    /\ estateId # NoSelection => Len(last.pending) < MaxPending
    /\ LET cleared == [last EXCEPT !.op = "selectEstate",
                                   !.selectedEstateId = estateId,
                                   !.currentEstate = NoEstateInfo,
                                   !.currentRole = "none",
                                   !.heirs = <<>>,
                                   !.hasClaimed = FALSE,
                                   !.error = "none"]
       IN last' = IF estateId = NoSelection THEN cleared
                  ELSE LoadEstateData(cleared, estateId)
    /\ PageOnly

\* getEstateInfo answers: setCurrentEstate, then isHeirOf is asked
GetEstateInfoReturns(i) ==
    /\ Awaits(i, "getEstateInfo")
    /\ LET r == last.pending[i]
           info == estates[r.estateId]
           estate == [id |-> r.estateId, executor |-> info.executor,
                      finalized |-> info.finalized, active |-> info.active]
       IN last' = [last EXCEPT
                      !.op = "loadEstateData",
                      !.currentEstate = estate,
                      !.pending[i] = Request(r.estateId, "isHeirOf",
                                             estate.executor = last.address,
                                             FALSE)]
    /\ PageOnly

\* isHeirOf answers: setCurrentRole, then getHeirs is asked
IsHeirOfReturns(i) ==
    /\ Awaits(i, "isHeirOf")
    /\ LET r == last.pending[i]
           isHeir == isHeirOf[r.estateId][last.address]
       IN last' = [last EXCEPT
                      !.op = "loadEstateData",
                      !.currentRole = IF r.isExecutor THEN "executor"
                                      ELSE IF isHeir THEN "heir"
                                      ELSE "none",
                      !.pending[i] = Request(r.estateId, "getHeirs",
                                             r.isExecutor, isHeir)]
    /\ PageOnly

\* getHeirs answers: setHeirs; an heir's hasClaimed is asked next, anyone
\* else's load is over
GetHeirsReturns(i) ==
    /\ Awaits(i, "getHeirs")
    /\ LET r == last.pending[i]
           shown == [last EXCEPT !.op = "loadEstateData",
                                 !.heirs = estateHeirs[r.estateId]]
       IN last' = IF r.isHeir
                  THEN [shown EXCEPT
                           !.pending[i] = Request(r.estateId, "hasClaimed",
                                                  r.isExecutor, r.isHeir)]
                  ELSE [shown EXCEPT !.hasClaimed = FALSE,
                                     !.isLoading = FALSE,
                                     !.pending = Without(@, i)]
    /\ PageOnly

\* hasClaimed answers: setHasClaimed, and the load is over
HasClaimedReturns(i) ==
    /\ Awaits(i, "hasClaimed")
    /\ LET r == last.pending[i]
       IN last' = [last EXCEPT
                      !.op = "loadEstateData",
                      !.hasClaimed = claimed[r.estateId][last.address],
                      !.isLoading = FALSE,
                      !.pending = Without(@, i)]
    /\ PageOnly

\* the contract call a load awaits throws: the catch block sets the error
RequestFails(i) ==
    /\ Mounted
    /\ i \in DOMAIN last.pending
    /\ last' = [last EXCEPT !.op = "loadEstateData",
                            !.error = "Failed to load estate",
                            !.isLoading = FALSE,
                            !.pending = Without(@, i)]
    /\ PageOnly

\* the executor of the seeded estates makes themself an heir, finalizes and
\* claims; then the page is opened and estates are selected while the
\* answers of the node arrive in any order
FrontNext ==
    \/ \E e \in EstateIds : AddHeir("a1", e, "a1", 1)
    \/ \E e \in EstateIds : FinalizeEstate("a1", e)
    \/ \E e \in EstateIds : ClaimAllocation("a1", e, FALSE)
    \/ \E address \in EOAs : Mount(address)
    \/ \E estateId \in EstateIds \cup {NoSelection} : SelectEstate(estateId)
    \/ \E i \in 1 .. MaxPending : GetEstateInfoReturns(i)
    \/ \E i \in 1 .. MaxPending : IsHeirOfReturns(i)
    \/ \E i \in 1 .. MaxPending : GetHeirsReturns(i)
    \/ \E i \in 1 .. MaxPending : HasClaimedReturns(i)
    \/ \E i \in 1 .. MaxPending : RequestFails(i)

FrontSpec == ReentryInit /\ [][FrontNext]_vars

----------------------------------------------------------------------------
(* Vocabulary of the properties *)

\* the estate was created
EstateExists(e) == estates[e].executor # ZeroAddr

\* the current heirs of an estate, by flag
Heirs(e) == {a \in Addrs : isHeirOf[e][a]}

\* the elements of an array
Range(arr) == {arr[i] : i \in 1 .. Len(arr)}

\* the plaintext the handle h decrypts to in the current state
PlainOf(h) == Plain(FHE, h)

\* the plaintext of an account's token balance
BalanceOf(account) == PlainOf(balances[account])

\* the principals granted on a handle
Grantees(h) == {p \in Addrs : <<h, p>> \in acl}

\* the sum of the plaintexts of the allocations of a set of heirs
RECURSIVE SumAllocations(_, _)
SumAllocations(e, hs) ==
    IF hs = {} THEN 0
    ELSE LET h == CHOOSE x \in hs : TRUE
         IN PlainOf(allocations[e][h]) + SumAllocations(e, hs \ {h})

\* the step is the call `op`
IsCall(op) == last'.op = op

\* the call of the step changed no storage of either contract nor the ACL
StorageUnchanged == UNCHANGED <<ledgerVars, tokenVars, fheVars>>

----------------------------------------------------------------------------
(* C1: finalized only ever changes from false to true.  A finalizeEstate   *)
(* by the executor on an open estate succeeds and sets finalized; no step  *)
(* resets finalized; a finalizeEstate on a finalized estate fails and      *)
(* changes nothing: with EstateAlreadyFinalized when the executor calls    *)
(* it, and at the earlier executor check (OnlyExecutor) for anyone else.   *)
C1_Step ==
    /\ \A e \in EstateIds : estates[e].finalized => estates'[e].finalized
    /\ IsCall("finalizeEstate") =>
         LET e == last'.estateId
             byExecutor == last'.sender = estates[e].executor
         IN /\ (byExecutor /\ ~estates[e].finalized) =>
                  (last'.result = "ok" /\ estates'[e].finalized)
            /\ estates[e].finalized =>
                  /\ last'.result # "ok"
                  /\ byExecutor => last'.result = "EstateAlreadyFinalized"
                  /\ ~byExecutor => last'.result = "OnlyExecutor"
                  /\ StorageUnchanged

----------------------------------------------------------------------------
(* C2: claim is exactly-once per (estate, heir).                           *)

\* the step is the call claimAllocation(e) by sender
IsClaim(e, sender) ==
    IsCall("claimAllocation") /\ last'.estateId = e /\ last'.sender = sender

\* the step is claimAllocation(e) by a current heir of the finalized estate
\* e who has not claimed yet
FirstClaim(e, heir) ==
    /\ IsClaim(e, heir)
    /\ estates[e].finalized
    /\ isHeirOf[e][heir]
    /\ ~claimed[e][heir]

\* the step marked the claim and moved exactly the heir's allocation from
\* the estate contract's token balance to the heir (euint64 arithmetic)
ClaimPaid(e, heir) ==
    LET allocation == PlainOf(allocations[e][heir])
    IN /\ last'.result = "ok"
       /\ claimed'[e][heir]
       /\ BalanceOf(heir)' = (BalanceOf(heir) + allocation) % Modulus
       /\ BalanceOf(Dist)' = (BalanceOf(Dist) - allocation + Modulus) % Modulus
       /\ \A a \in Addrs \ {heir, Dist} : balances'[a] = balances[a]

\* a claimAllocation by a heir who has claimed fails and moves no funds
LaterClaimFails(e, heir) ==
    (IsClaim(e, heir) /\ claimed[e][heir]) =>
        (last'.result = "AlreadyClaimed" /\ StorageUnchanged)

\* C2 as stated: the first claimAllocation by a heir of a finalized estate
\* succeeds and pays the allocation; every later one fails, AlreadyClaimed
C2_Original ==
    [][\A e \in EstateIds, heir \in Users :
          /\ FirstClaim(e, heir) => ClaimPaid(e, heir)
          /\ LaterClaimFails(e, heir)]_vars

\* What the code does guarantee: the first claimAllocation by a heir of a
\* finalized estate succeeds and pays exactly the allocation when the heir's
\* address is not a contract; when it is a contract the claim either does
\* the same or fails with TransferToNonReceiver and changes nothing; a claim
\* succeeds only as such a first claim, and once it has, every later one
\* fails with AlreadyClaimed and changes no balance
C2_Step ==
    \A e \in EstateIds, heir \in Users :
        /\ FirstClaim(e, heir) =>
             /\ ~IsContract(heir) => ClaimPaid(e, heir)
             /\ IsContract(heir) =>
                  \/ ClaimPaid(e, heir)
                  \/ last'.result = "TransferToNonReceiver" /\ StorageUnchanged
        /\ (IsClaim(e, heir) /\ last'.result = "ok") => FirstClaim(e, heir)
        /\ LaterClaimFails(e, heir)

C2_ClaimExactlyOnce == [][C2_Step]_vars

\* a heir has been paid and has called claimAllocation again
C2_Witness ==
    /\ last.op = "claimAllocation"
    /\ last.result = "AlreadyClaimed"
    /\ claimed[last.estateId][last.sender]
    /\ BalanceOf(last.sender) = PlainOf(allocations[last.estateId][last.sender])

----------------------------------------------------------------------------
(* C3: the running total against the live allocations.                     *)

C3_WitnessRemoved ==
    /\ last.op = "removeHeir" /\ last.result = "ok"
    /\ PlainOf(totalAllocated[last.estateId]) = 0

----------------------------------------------------------------------------
(* C4: once an estate is finalized its heir list, isHeirOf flags,          *)
(* allocation handles (and their plaintexts) and totalAllocated never      *)
(* change, and every addHeir and removeHeir on it fails: with              *)
(* EstateAlreadyFinalized when the executor calls it, and at the earlier   *)
(* executor check (OnlyExecutor) for anyone else.                          *)
C4_Step ==
    \A e \in EstateIds :
        estates[e].finalized =>
            /\ estateHeirs'[e] = estateHeirs[e]
            /\ isHeirOf'[e] = isHeirOf[e]
            /\ allocations'[e] = allocations[e]
            /\ totalAllocated'[e] = totalAllocated[e]
            /\ \A h \in Addrs :
                  PlainOf(allocations[e][h])' = PlainOf(allocations[e][h])
            /\ ((IsCall("addHeir") \/ IsCall("removeHeir"))
                    /\ last'.estateId = e) =>
                   /\ last'.result # "ok"
                   /\ last'.sender = estates[e].executor =>
                          last'.result = "EstateAlreadyFinalized"
                   /\ last'.sender # estates[e].executor =>
                          last'.result = "OnlyExecutor"

----------------------------------------------------------------------------
(* C5: for every current heir h of an estate e, the only principals        *)
(* granted on the handle allocations[e][h] are h, the executor of e and    *)
(* the estate contract; no heir of any estate other than those holds a     *)
(* grant on it.                                                            *)
C5_AllocationVisibleToHeirAndExecutor ==
    \A e \in EstateIds : \A h \in Heirs(e) :
        /\ Grantees(allocations[e][h]) \subseteq {h, estates[e].executor, Dist}
        /\ \A e2 \in EstateIds : \A h2 \in Heirs(e2) :
              h2 \notin {h, estates[e].executor} =>
                  <<allocations[e][h], h2>> \notin acl

\* an estate with two heirs: the allocation of one is granted to it, the
\* executor and the contract, and the other heir (who is not the executor)
\* holds no grant on it
C5_Witness ==
    \E e \in EstateIds : \E h, h2 \in Heirs(e) :
        /\ h2 \notin {h, estates[e].executor}
        /\ Grantees(allocations[e][h]) = {h, estates[e].executor, Dist}
        /\ <<allocations[e][h], h2>> \notin acl
        /\ <<allocations[e][h2], h2>> \in acl

----------------------------------------------------------------------------
(* C6: for every current heir h of an existing estate e, getMyAllocation   *)
(* called by h succeeds, returns allocations[e][h], and the handle is      *)
(* granted to h and to the executor of e.                                  *)
C6_HeirCanDecryptOwn ==
    /\ \A e \in EstateIds : \A h \in Heirs(e) :
          /\ EstateExists(e)
          /\ GetMyAllocation(h, e).result = "ok"
          /\ IsInitialized(GetMyAllocation(h, e).ret)
          /\ {h, estates[e].executor} \subseteq
                 Grantees(GetMyAllocation(h, e).ret)
    /\ (last.op = "getMyAllocation"
            /\ isHeirOf[last.estateId][last.sender]) =>
          /\ last.result = "ok"
          /\ last.ret = allocations[last.estateId][last.sender]
          /\ <<last.ret, last.sender>> \in acl
          /\ <<last.ret, estates[last.estateId].executor>> \in acl

\* a heir that is not the executor has fetched its allocation
C6_Witness ==
    /\ last.op = "getMyAllocation"
    /\ last.result = "ok"
    /\ last.sender # estates[last.estateId].executor
    /\ PlainOf(last.ret) \in Amounts

----------------------------------------------------------------------------
(* C7: getAllocation, getContractBalance and getTotalAllocated fail with   *)
(* OnlyExecutor for every caller that is not the executor of the estate;   *)
(* getMyAllocation on an existing estate fails with NotHeir unless the     *)
(* caller is a current heir.                                               *)
C7_ReadPathAuthorization ==
    LET e == last.estateId
    IN /\ (last.op \in {"getAllocation", "getContractBalance",
                        "getTotalAllocated"}
              /\ last.sender # estates[e].executor) =>
             (last.result = "OnlyExecutor" /\ last.ret = NoHandle)
       /\ (last.op = "getMyAllocation" /\ EstateExists(e)
              /\ ~isHeirOf[e][last.sender]) =>
             (last.result = "NotHeir" /\ last.ret = NoHandle)
       /\ (last.op = "getMyAllocation" /\ last.result = "ok") =>
             isHeirOf[e][last.sender]

\* a current heir asked getAllocation for its own allocation and was refused
C7_Witness ==
    /\ last.op = "getAllocation"
    /\ last.result = "OnlyExecutor"
    /\ last.heir = last.sender
    /\ isHeirOf[last.estateId][last.sender]

\* a removed heir asked getMyAllocation and was refused
C7_WitnessRemovedHeir ==
    /\ last.op = "getMyAllocation"
    /\ last.result = "NotHeir"
    /\ IsInitialized(allocations[last.estateId][last.sender])

----------------------------------------------------------------------------
(* C8: an address occurs in estateHeirs[e] iff isHeirOf[e][a]; the list    *)
(* holds no address twice; getHeirCount(e) is the number of flagged        *)
(* addresses.                                                              *)
C8_HeirListMatchesFlags ==
    \A e \in EstateIds :
        /\ \A a \in Addrs : (a \in Range(estateHeirs[e])) <=> isHeirOf[e][a]
        /\ \A i, j \in 1 .. Len(estateHeirs[e]) :
              estateHeirs[e][i] = estateHeirs[e][j] => i = j
        /\ GetHeirCount(e) = Cardinality(Heirs(e))

\* a heir has been removed from an estate that keeps another heir
C8_Witness ==
    /\ last.op = "removeHeir" /\ last.result = "ok"
    /\ ~isHeirOf[last.estateId][last.heir]
    /\ last.heir \notin Range(estateHeirs[last.estateId])
    /\ Len(estateHeirs[last.estateId]) = 1

----------------------------------------------------------------------------
(* C9: addHeir, removeHeir and finalizeEstate called by an address other   *)
(* than the estate's executor fail with OnlyExecutor and change nothing;   *)
(* addHeir of the zero address fails, with ZeroAddress when the executor   *)
(* calls it on an open estate.                                             *)
C9_Step ==
    LET e == last'.estateId
    IN /\ (last'.op \in {"addHeir", "removeHeir", "finalizeEstate"}
              /\ last'.sender # estates[e].executor) =>
             (last'.result = "OnlyExecutor" /\ StorageUnchanged)
       /\ (IsCall("addHeir") /\ last'.heir = ZeroAddr) =>
             /\ last'.result # "ok"
             /\ StorageUnchanged
             /\ (last'.sender = estates[e].executor
                    /\ ~estates[e].finalized) =>
                   last'.result = "ZeroAddress"

C9_OnlyExecutorMutates == [][C9_Step]_vars

\* an address that is not the executor tried to remove a current heir
C9_Witness ==
    /\ last.op = "removeHeir"
    /\ last.result = "OnlyExecutor"
    /\ isHeirOf[last.estateId][last.heir]

\* the executor tried to add the zero address
C9_WitnessZeroAddress ==
    last.op = "addHeir" /\ last.result = "ZeroAddress"

----------------------------------------------------------------------------
(* C10: on an open estate, addHeir by the executor of an address that is   *)
(* already a heir fails with AlreadyHeir, removeHeir by the executor of    *)
(* an address that is not a heir fails with NotHeir; neither changes       *)
(* anything.                                                               *)
C10_Step ==
    LET e == last'.estateId
        open == last'.sender = estates[e].executor /\ ~estates[e].finalized
    IN /\ (IsCall("addHeir") /\ open /\ isHeirOf[e][last'.heir]) =>
             (last'.result = "AlreadyHeir" /\ StorageUnchanged)
       /\ (IsCall("removeHeir") /\ open /\ ~isHeirOf[e][last'.heir]) =>
             (last'.result = "NotHeir" /\ StorageUnchanged)

C10_DuplicateAndMissingHeir == [][C10_Step]_vars

\* the executor tried to remove a heir it had already removed
C10_Witness ==
    /\ last.op = "removeHeir"
    /\ last.result = "NotHeir"
    /\ IsInitialized(allocations[last.estateId][last.heir])

\* the executor tried to add a current heir again
C10_WitnessAlreadyHeir ==
    /\ last.op = "addHeir"
    /\ last.result = "AlreadyHeir"
    /\ isHeirOf[last.estateId][last.heir]

----------------------------------------------------------------------------
(* Vocabulary of the token properties *)

\* the calls that ask the token to move funds
TransferOps == {"confidentialTransfer", "confidentialTransferFrom",
                "confidentialTransferAndCall"}

\* the step is a call asking the token to move funds to `to`
IsTransferTo(to) == last'.op \in TransferOps /\ last'.to = to

\* the plaintext of the amount the call of the step handed to _transfer
AmountMoved == Plain(FHE', last'.amount)

\* the payload is abi.encode(e)
Encodes(data, e) == data.len >= 32 /\ data.word = e

\* the payload decodes to the id of an existing estate
DecodesToEstate(data) ==
    \E e \in EstateIds : Encodes(data, e) /\ EstateExists(e)

\* the sum of the plaintexts of the token balances of a set of accounts
RECURSIVE SumBalances(_, _)
SumBalances(f, as) ==
    IF as = {} THEN 0
    ELSE LET a == CHOOSE x \in as : TRUE
         IN Plain(f, balances[a]) + SumBalances(f, as \ {a})

----------------------------------------------------------------------------
(* C11: a deposit succeeds and is routed.  A token transfer to the estate  *)
(* contract whose payload encodes the id of an existing estate completes,  *)
(* credits the estate contract's token balance, and the hook replaces the  *)
(* estate's balance by its sum with the amount and grants the new balance  *)
(* to the executor.                                                        *)
(*                                                                         *)
(* The token does not do this: no transfer function of it takes a payload, *)
(* _transfer hands the hook the empty payload, and the hook rejects it.    *)

C11_Original ==
    [][\A e \in EstateIds :
          (IsTransferTo(Dist) /\ Encodes(last'.data, e) /\ EstateExists(e))
          => /\ last'.result = "ok"
             /\ BalanceOf(Dist)' =
                    (BalanceOf(Dist) + AmountMoved) % Modulus
             /\ PlainOf(estateBalances[e])' =
                    (PlainOf(estateBalances[e]) + AmountMoved)
                        % Modulus
             /\ estates[e].executor \in Grantees(estateBalances[e])']_vars

----------------------------------------------------------------------------
(* C12: a deposit whose payload does not decode to the id of an existing   *)
(* estate fails as a whole.  A call asking the token to move funds to the  *)
(* estate contract with such a payload (the empty payload of _transfer     *)
(* included) reverts, and the sender's token balance, the estate           *)
(* contract's token balance and every estate's balance are what they were  *)
(* before it.                                                              *)

C12_Step ==
    (IsTransferTo(Dist) /\ ~DecodesToEstate(last'.data))
    => /\ last'.result # "ok"
       /\ balances' = balances
       /\ estateBalances' = estateBalances
       /\ \A a \in Addrs : BalanceOf(a)' = BalanceOf(a)
       /\ \A e \in EstateIds :
             PlainOf(estateBalances[e])' = PlainOf(estateBalances[e])

C12_BadDepositRollsBack == [][C12_Step]_vars

\* a transfer to the estate contract was refused by its hook while an
\* estate existed
C12_Witness ==
    /\ last.op = "confidentialTransfer"
    /\ last.to = Dist
    /\ last.result = "TransferToNonReceiver"
    /\ ~DecodesToEstate(last.data)
    /\ \E e \in EstateIds : EstateExists(e)

----------------------------------------------------------------------------
(* C13: each successful claim is a transfer out of the estate's balance.   *)
(* After claimAllocation(e) by heir h succeeds, the estate's balance, the  *)
(* value getContractBalance(e) returns, is lower than before by h's        *)
(* allocation.                                                             *)
(*                                                                         *)
(* claimAllocation pays from the contract's token balance and never        *)
(* writes estateBalances.                                                  *)

\* the step is a successful claimAllocation(e) by heir
ClaimSucceeds(e, heir) ==
    /\ IsCall("claimAllocation")
    /\ last'.estateId = e
    /\ last'.sender = heir
    /\ last'.result = "ok"

C13_Original ==
    [][\A e \in EstateIds, heir \in Users :
          ClaimSucceeds(e, heir)
          => PlainOf(GetContractBalance(estates[e].executor, e).ret)' =
                 (PlainOf(GetContractBalance(estates[e].executor, e).ret)
                  - PlainOf(allocations[e][heir]) + Modulus) % Modulus]_vars

----------------------------------------------------------------------------
(* C14: claimAllocation and operator authority.  The claim as stated: when *)
(* no operator approval for (holder = estate contract, operator = estate   *)
(* contract) exists, a claim that passes all ledger checks fails with      *)
(* NotOperator.                                                            *)
(*                                                                         *)
(* The token treats every holder as its own operator, so the estate        *)
(* contract, which is both the holder and the caller of                    *)
(* confidentialTransferFrom, needs no approval: with no approval stored, a *)
(* claim that passes all ledger checks never fails with NotOperator.       *)

\* no approval of the estate contract for itself is in force
NoSelfApproval == operators[Dist][Dist] <= now

\* the step is a claimAllocation that passes the ledger checks
ClaimPassesLedgerChecks ==
    /\ IsCall("claimAllocation")
    /\ ClaimError(last'.sender, last'.estateId) = "ok"

C14_Step ==
    /\ NoSelfApproval
    /\ ClaimPassesLedgerChecks => last'.result # "NotOperator"

----------------------------------------------------------------------------
(* C15: isOperator(holder, spender) is true when holder == spender, and    *)
(* otherwise exactly when the expiry stored for (holder, spender) is       *)
(* strictly greater than the current time: false when the expiry equals    *)
(* now or when no expiry was ever set.  setOperator overwrites the expiry  *)
(* for that pair only.                                                     *)

\* what isOperator answers in the current state
C15_IsOperatorAnswers ==
    \A holder \in Addrs, spender \in Addrs :
        /\ holder = spender => IsOperator(holder, spender)
        /\ holder # spender =>
              /\ operators[holder][spender] > now
                     => IsOperator(holder, spender)
              /\ operators[holder][spender] = now
                     => ~IsOperator(holder, spender)
              /\ operators[holder][spender] < now
                     => ~IsOperator(holder, spender)
              /\ operators[holder][spender] = 0
                     => ~IsOperator(holder, spender)

\* a successful setOperator stores the expiry for its pair and leaves every
\* other pair's expiry as it was; a failed one changes none
C15_SetOperatorStep ==
    IsCall("setOperator")
    => IF last'.result = "ok"
       THEN \A holder \in Addrs, spender \in Addrs :
               operators'[holder][spender] =
                   IF holder = last'.sender /\ spender = last'.operator
                   THEN last'.until
                   ELSE operators[holder][spender]
       ELSE operators' = operators

C15_OperatorSemantics ==
    /\ C15_IsOperatorAnswers
    /\ [][C15_SetOperatorStep /\ C15_IsOperatorAnswers']_vars

\* an approval has reached its expiry timestamp and no longer counts, while
\* another pair's approval, set earlier and overwritten by no later call,
\* is still stored
C15_Witness ==
    \E holder \in Users, spender \in Users, other \in Users :
        /\ holder # spender
        /\ operators[holder][spender] = now
        /\ ~IsOperator(holder, spender)
        /\ other # spender
        /\ operators[holder][other] # 0
        /\ IsOperator(holder, other)
        /\ last.op = "setOperator"
        /\ last.result = "ok"
        /\ last.operator = spender

\* an approval is in force
C15_WitnessInForce ==
    \E holder \in Users, spender \in Users :
        /\ holder # spender
        /\ operators[holder][spender] > now
        /\ IsOperator(holder, spender)
        /\ operators[spender][holder] = 0
        /\ ~IsOperator(spender, holder)

----------------------------------------------------------------------------
(* C16: funds move from a holder only under authority.  The claim as       *)
(* stated: confidentialTransferFrom(from, to, amount) by a caller for whom *)
(* isOperator(from, caller) is false fails with NotOperator and changes no *)
(* balance; once time reaches an operator's expiry that operator can no    *)
(* longer move the holder's funds, at any later time, unless the holder    *)
(* calls setOperator again.                                                *)
(*                                                                         *)
(* The zero recipient is refused before the operator is looked at: such a  *)
(* call fails with ZeroAddress.  With that error allowed for the zero      *)
(* recipient the claim holds.                                              *)

\* the step is a confidentialTransferFrom by a caller without authority
\* over the funds of `from`
UnauthorizedTransferFrom ==
    /\ IsCall("confidentialTransferFrom")
    /\ ~IsOperator(last'.from, last'.sender)

\* no token balance is changed by the step
BalancesUnchanged ==
    /\ balances' = balances
    /\ \A a \in Addrs : BalanceOf(a)' = BalanceOf(a)

C16_Original ==
    [][UnauthorizedTransferFrom
       => last'.result = "NotOperator" /\ BalancesUnchanged]_vars

C16_Step ==
    /\ UnauthorizedTransferFrom
       => /\ last'.result =
                 IF last'.to = ZeroAddr THEN "ZeroAddress" ELSE "NotOperator"
          /\ BalancesUnchanged
    \* time does not go back, and an expiry is changed by the holder's
    \* setOperator for that operator alone: an expired approval stays
    \* expired until then
    /\ now' >= now
    /\ \A holder \in Addrs, spender \in Addrs :
          operators'[holder][spender] # operators[holder][spender]
          => /\ IsCall("setOperator")
             /\ last'.sender = holder
             /\ last'.operator = spender

C16_OnlyUnderAuthority == [][C16_Step]_vars

\* an operator whose approval has expired was refused
C16_Witness ==
    /\ last.op = "confidentialTransferFrom"
    /\ last.result = "NotOperator"
    /\ last.from # last.sender
    /\ operators[last.from][last.sender] # 0
    /\ operators[last.from][last.sender] <= now

\* an operator whose approval is in force moved the holder's funds
C16_WitnessInForce ==
    /\ last.op = "confidentialTransferFrom"
    /\ last.result = "ok"
    /\ last.from # last.sender
    /\ operators[last.from][last.sender] > now

----------------------------------------------------------------------------
(* C17: token transfers use unsigned wraparound at the width of euint64    *)
(* and never fail for lack of funds.  A transfer of amount a succeeds or   *)
(* fails whatever the balances are (the only failures are the zero         *)
(* recipient, a caller without authority and a recipient contract that     *)
(* does not acknowledge); a transfer that succeeds, from a balance b < a   *)
(* included, leaves the sender with (b - a) mod 2^64 and the recipient     *)
(* with (r + a) mod 2^64; for every transfer, from == to included, the sum *)
(* of all balances modulo 2^64 is the same before and after.               *)

\* the step is a confidentialTransfer or confidentialTransferFrom
IsTransfer ==
    last'.op \in {"confidentialTransfer", "confidentialTransferFrom"}

\* the sum of all token balances
TotalSupply == SumBalances(FHE, Addrs)

C17_Step ==
    IsTransfer
    => /\ last'.result \in {"ok", "ZeroAddress", "NotOperator",
                            "TransferToNonReceiver"}
       \* a holder's transfer to an account without code cannot fail
       /\ (last'.from = last'.sender /\ last'.to \in EOAs)
              => last'.result = "ok"
       /\ last'.result = "ok"
              => \A a \in Addrs :
                    BalanceOf(a)' =
                        (BalanceOf(a)
                         + (IF a = last'.to THEN AmountMoved ELSE 0)
                         + (IF a = last'.from
                            THEN Modulus - AmountMoved ELSE 0)) % Modulus
       /\ last'.result # "ok" => BalancesUnchanged
       /\ TotalSupply' % Modulus = TotalSupply % Modulus

C17_WrapAround == [][C17_Step]_vars

\* a transfer larger than the sender's balance went through: the sender's
\* balance wrapped
C17_Witness ==
    /\ last.op \in {"confidentialTransfer", "confidentialTransferFrom"}
    /\ last.result = "ok"
    /\ last.from # last.to
    /\ PlainOf(last.amount) > 0
    /\ BalanceOf(last.from) + PlainOf(last.amount) >= Modulus

\* a transfer of a non-zero amount from an account to itself went through
C17_WitnessSelf ==
    /\ last.op \in {"confidentialTransfer", "confidentialTransferFrom"}
    /\ last.result = "ok"
    /\ last.from = last.to
    /\ PlainOf(last.amount) > 0
    /\ BalanceOf(last.from) > 0

----------------------------------------------------------------------------
(* C18: a transfer to a recipient that is a contract invokes the           *)
(* recipient's receiver hook, and fails as a whole with                    *)
(* TransferToNonReceiver, both balances restored, when the hook reverts or *)
(* returns anything other than the onERC7984Received selector; a transfer  *)
(* to a recipient without code invokes no hook.                            *)

\* the transfer of the step passed the checks made before _transfer
ReachedTransfer ==
    IsTransfer /\ last'.result \notin {"ZeroAddress", "NotOperator"}

C18_Step ==
    /\ ReachedTransfer
       => /\ last'.hook # "none" <=> IsContract(last'.to)
          /\ last'.hook = "refused"
                => /\ last'.result = "TransferToNonReceiver"
                   /\ BalancesUnchanged
                   /\ StorageUnchanged
          /\ last'.hook \in {"none", "acknowledged"} => last'.result = "ok"
    /\ (IsTransfer /\ ~ReachedTransfer) => last'.hook = "none"

C18_ReceiverHook == [][C18_Step]_vars

\* a contract recipient's hook refused a transfer, which failed
C18_Witness ==
    /\ last.op \in {"confidentialTransfer", "confidentialTransferFrom"}
    /\ last.to \in HeirContracts
    /\ last.hook = "refused"
    /\ last.result = "TransferToNonReceiver"

\* a contract recipient's hook acknowledged a transfer, which went through
C18_WitnessAcknowledged ==
    /\ last.op \in {"confidentialTransfer", "confidentialTransferFrom"}
    /\ last.to \in HeirContracts
    /\ last.hook = "acknowledged"
    /\ last.result = "ok"
    /\ PlainOf(last.amount) > 0

\* a transfer to an account without code went through with no hook call
C18_WitnessNoHook ==
    /\ last.op \in {"confidentialTransfer", "confidentialTransferFrom"}
    /\ last.to \in EOAs
    /\ last.from # last.to
    /\ last.hook = "none"
    /\ last.result = "ok"

----------------------------------------------------------------------------
(* C19: the receiver hook of the estate contract rejects, in this order: a *)
(* caller other than the configured token with InvalidToken; a payload     *)
(* shorter than 32 bytes, an absent payload included, with                 *)
(* MissingEstateId; a decoded id with no existing estate with              *)
(* EstateNotFound.  An estate's balance changes only through a hook call   *)
(* that passes all three checks, and then only the balance of the decoded  *)
(* estate changes.                                                         *)

\* the step is a call of the hook
IsHookCall == IsCall("onERC7984Received")

\* the step is a hook call that passes the three checks and names estate e
HookAccepts(e) ==
    /\ IsHookCall
    /\ last'.sender = Token
    /\ Encodes(last'.data, e)
    /\ EstateExists(e)

C19_Step ==
    /\ IsHookCall
       => /\ last'.result =
                 IF last'.sender # Token THEN "InvalidToken"
                 ELSE IF last'.data.len < 32 THEN "MissingEstateId"
                 ELSE IF ~DecodesToEstate(last'.data) THEN "EstateNotFound"
                 ELSE "ok"
          /\ last'.result # "ok" => StorageUnchanged
    /\ \A e \in EstateIds :
          /\ HookAccepts(e)
                => /\ last'.result = "ok"
                   /\ PlainOf(estateBalances[e])' =
                          (PlainOf(estateBalances[e]) + AmountMoved) % Modulus
          \* the handle of an estate's balance is replaced by an accepted
          \* hook call for that estate, or set to an encrypted zero when the
          \* estate is created; its plaintext by the hook call alone
          /\ estateBalances'[e] # estateBalances[e]
                => \/ HookAccepts(e)
                   \/ /\ IsCall("createEstate")
                      /\ last'.estateId = e
                      /\ ~EstateExists(e)
          /\ PlainOf(estateBalances[e])' # PlainOf(estateBalances[e])
                => HookAccepts(e)

C19_HookChecksAndRouting == [][C19_Step]_vars

\* the token's call was refused for an id that names no estate while
\* another estate existed
C19_Witness ==
    /\ last.op = "onERC7984Received"
    /\ last.sender = Token
    /\ last.data.len >= 32
    /\ last.result = "EstateNotFound"
    /\ \E e \in EstateIds : EstateExists(e)

\* a caller other than the token was refused with InvalidToken although
\* its payload was too short as well
C19_WitnessInvalidToken ==
    /\ last.op = "onERC7984Received"
    /\ last.sender # Token
    /\ last.data.len < 32
    /\ last.result = "InvalidToken"

\* a deposit was routed to one of two estates and raised its balance only
C19_WitnessRouted ==
    /\ last.op = "onERC7984Received"
    /\ last.result = "ok"
    /\ \E e \in EstateIds, other \in EstateIds :
          /\ e # other
          /\ Encodes(last.data, e)
          /\ EstateExists(other)
          /\ PlainOf(estateBalances[e]) # 0
          /\ PlainOf(estateBalances[other]) = 0

----------------------------------------------------------------------------
(* C20: createEstate always succeeds for any caller, returns the current   *)
(* value of nextEstateId and increments it by one; ids are therefore       *)
(* assigned 0, 1, 2, ... with no id ever returned twice; an estate record  *)
(* exists (executor not the zero address, active, not finalized at         *)
(* creation) exactly for the ids below nextEstateId; and an estate's       *)
(* executor never changes after creation.                                  *)

\* the records that exist are those of the ids below nextEstateId
C20_RecordsBelowNext ==
    \A e \in EstateIds :
        /\ EstateExists(e) <=> e < nextEstateId
        /\ EstateExists(e) => estates[e].active
        /\ ~EstateExists(e) => estates[e] = EmptyEstate

C20_Step ==
    /\ IsCall("createEstate")
       => /\ last'.result = "ok"
          /\ last'.estateId = nextEstateId
          /\ nextEstateId' = nextEstateId + 1
          /\ ~EstateExists(last'.estateId)
          /\ estates' = [estates EXCEPT ![last'.estateId] =
                 [executor |-> last'.sender, finalized |-> FALSE,
                  active |-> TRUE]]
          /\ last'.sender # ZeroAddr
    \* only createEstate moves nextEstateId: an id is handed out once
    /\ nextEstateId' # nextEstateId => IsCall("createEstate")
    /\ \A e \in EstateIds :
          EstateExists(e) => estates'[e].executor = estates[e].executor

C20_SequentialEstateIds ==
    /\ C20_RecordsBelowNext
    /\ [][C20_Step /\ C20_RecordsBelowNext']_vars

\* a second estate was created, by another executor than the first, after
\* the first had been finalized
C20_Witness ==
    /\ last.op = "createEstate"
    /\ last.result = "ok"
    /\ last.estateId = 1
    /\ nextEstateId = 2
    /\ estates[0].executor # estates[1].executor
    /\ estates[0].finalized
    /\ ~estates[1].finalized

----------------------------------------------------------------------------
(* C21: adding a heir and then removing the same heir before finalization  *)
(* is a round trip: the plaintext of totalAllocated, isHeirOf for that     *)
(* heir, the heir count and the heir's estate index return to their values *)
(* before the add; a removed heir can be added again with a different      *)
(* allocation, after which totalAllocated has grown by exactly the new     *)
(* allocation and getMyAllocation returns the new handle.                  *)
(*                                                                         *)
(* The total is a euint64 and FHE.add wraps: it has grown by the new       *)
(* allocation modulo 2^64.  With that the claim holds.                     *)

\* the step is a successful addHeir(e, heir)
HeirAdded(e, heir) ==
    /\ IsCall("addHeir")
    /\ last'.result = "ok"
    /\ last'.estateId = e
    /\ last'.heir = heir

\* the step is a successful removeHeir(e, heir)
HeirRemoved(e, heir) ==
    /\ IsCall("removeHeir")
    /\ last'.result = "ok"
    /\ last'.estateId = e
    /\ last'.heir = heir

\* heir was a heir of e before and has been removed
WasRemoved(e, heir) == ~isHeirOf[e][heir] /\ IsInitialized(allocations[e][heir])

\* removeHeir(e, heir), called by the executor in the state the step
\* enters, would succeed and give back the total, the heir list and the
\* heir's index of the state the step leaves
RemovalWouldRestore(e, heir) ==
    /\ RemoveHeirError(estates[e].executor, e, heir)' = "ok"
    /\ Plain(TotalAfterRemove(FHE, e, heir), Fresh(FHE, Dist, e))' =
           PlainOf(totalAllocated[e])
    /\ RemoveFromArray(estateHeirs[e], heir)' = estateHeirs[e]
    /\ Len(RemoveFromArray(estateHeirs[e], heir))' = GetHeirCount(e)
    /\ RemoveFromArray(heirEstates[heir], e)' = heirEstates[heir]
    /\ ~isHeirOf[e][heir]

\* what a successful removeHeir(e, heir) does to the total, the flag, the
\* heir list and the heir's index
RemovalEffect(e, heir) ==
    /\ PlainOf(totalAllocated[e])' =
           Plain(TotalAfterRemove(FHE, e, heir), Fresh(FHE, Dist, e))
    /\ ~isHeirOf'[e][heir]
    /\ estateHeirs'[e] = RemoveFromArray(estateHeirs[e], heir)
    /\ heirEstates'[heir] = RemoveFromArray(heirEstates[heir], e)
    /\ GetHeirCount(e)' = GetHeirCount(e) - 1

\* getMyAllocation(e) by the heir returns a handle the ledger did not hold
\* before the step
ReturnsNewHandle(e, heir) ==
    /\ GetMyAllocation(heir, e)'.result = "ok"
    /\ GetMyAllocation(heir, e)'.ret \notin DOMAIN plain
    /\ GetMyAllocation(heir, e)'.ret # allocations[e][heir]

C21_Step ==
    \A e \in EstateIds, heir \in Users :
        /\ HeirAdded(e, heir) => RemovalWouldRestore(e, heir)
        /\ HeirRemoved(e, heir) => RemovalEffect(e, heir)
        /\ (HeirAdded(e, heir) /\ WasRemoved(e, heir))
              => /\ PlainOf(totalAllocated[e])' =
                        (PlainOf(totalAllocated[e])
                         + PlainOf(allocations[e][heir])') % Modulus
                 /\ ReturnsNewHandle(e, heir)

C21_WitnessRoundTrip ==
    /\ last.op = "removeHeir"
    /\ last.result = "ok"
    /\ last.heir = "a1"
    /\ estateHeirs[0] = <<"c1">>
    /\ heirEstates["a1"] = <<>>
    /\ PlainOf(totalAllocated[0]) = PlainOf(allocations[0]["c1"])
    /\ PlainOf(totalAllocated[0]) = Modulus - 1

----------------------------------------------------------------------------
(* C22: every operation naming an estate id that was never created is      *)
(* rejected as not found.  addHeir, removeHeir, finalizeEstate,            *)
(* claimAllocation, getMyAllocation, getAllocation, getContractBalance     *)
(* and getTotalAllocated called with an id >= nextEstateId fail with       *)
(* EstateNotFound and change no state.                                     *)
(*                                                                         *)
(* Only getMyAllocation carries the estateExists modifier.  The executor   *)
(* operations compare the caller with the executor of an empty record, the *)
(* zero address, and fail with OnlyExecutor; claimAllocation reads the     *)
(* finalized flag of the empty record and fails with EstateNotFinalized.   *)

\* the operations of the ledger that name an estate
EstateOps == {"addHeir", "removeHeir", "finalizeEstate", "claimAllocation",
              "getMyAllocation", "getAllocation", "getContractBalance",
              "getTotalAllocated"}

\* the step is a call of the ledger naming an estate id never created
NamesUnknownEstate ==
    /\ last'.op \in EstateOps
    /\ last'.estateId >= nextEstateId

C22_Original ==
    [][NamesUnknownEstate
       => last'.result = "EstateNotFound" /\ StorageUnchanged]_vars

----------------------------------------------------------------------------
(* C23: receiver-hook ordering and re-entrancy.  When the token calls a    *)
(* recipient's hook, the debit of the sender and the credit of the         *)
(* recipient of that transfer are already written, and for a claim the     *)
(* claimed flag as well.  Whatever the hook does, calling claimAllocation  *)
(* or the token again included: a claimAllocation by the heir being paid   *)
(* fails with AlreadyClaimed and changes nothing; a payout for (estate,    *)
(* heir) starts only while claimed is false and sets it, and claimed goes  *)
(* back to false only when the payout is rolled back with its balances;    *)
(* the answer of the hook writes no balance, so a transfer debits and      *)
(* credits its amount once, or not at all when it is rolled back.          *)

\* the depth of hooks running before and after the step
Depth == Len(Frames)

\* the step enters a hook: the frame pushed
Entered == last'.stack[Len(last'.stack)]

EntersAHook == InHook' /\ Len(last'.stack) = Depth + 1

\* the step is a call from inside a hook that came back without entering
\* another hook
InnerCallCameBack == InHook /\ InHook' /\ Len(last'.stack) = Depth

\* the step is the answer of the running hook
LeavesAHook == InHook /\ (~InHook' \/ Len(last'.stack) = Depth - 1)

\* the heir h is being paid its allocation of estate e: the hook of that
\* payout has been entered and not left
BeingPaid(e, h) ==
    \E i \in 1 .. Depth :
        /\ Frames[i].op = "claimAllocation"
        /\ Frames[i].estateId = e
        /\ Frames[i].to = h

\* the step starts a payout of estate e to heir h
PayoutStarts(e, h) ==
    \/ /\ EntersAHook
       /\ Entered.op = "claimAllocation"
       /\ Entered.estateId = e
       /\ Entered.to = h
    \/ /\ ~InHook /\ ~InHook'
       /\ ClaimSucceeds(e, h)

\* the balances after the step, in plaintext, are those before it with
\* `amount` moved from `from` to `to`
Moved(from, to, amount) ==
    \A a \in Addrs :
        BalanceOf(a)' =
            (BalanceOf(a) + (IF a = to THEN amount ELSE 0)
                          + (IF a = from THEN Modulus - amount ELSE 0))
            % Modulus

\* the storage after the step is the snapshot s
RestoredTo(s) ==
    /\ claimed' = s.claimed
    /\ balances' = s.balances
    /\ plain' = s.fhe.plain
    /\ acl' = s.fhe.acl

C23_Step ==
    /\ EntersAHook
       => /\ Moved(Entered.from, Entered.to, Plain(FHE', Entered.amount))
          /\ Entered.saved = Snapshot
          /\ Entered.op = "claimAllocation"
             => /\ ~claimed[Entered.estateId][Entered.to]
                /\ claimed'[Entered.estateId][Entered.to]
    /\ \A e \in EstateIds, h \in Users :
          /\ (InnerCallCameBack /\ BeingPaid(e, h)
              /\ last'.inner # last.inner
              /\ last'.inner.op = "claimAllocation"
              /\ last'.inner.sender = h /\ last'.inner.estateId = e)
             => last'.inner.result = "AlreadyClaimed" /\ StorageUnchanged
          /\ PayoutStarts(e, h) => ~claimed[e][h] /\ claimed'[e][h]
          /\ (~claimed[e][h] /\ claimed'[e][h]) => PayoutStarts(e, h)
          /\ (claimed[e][h] /\ ~claimed'[e][h])
             => LeavesAHook /\ RestoredTo(Running.saved)
    /\ LeavesAHook
       => \/ balances' = balances /\ claimed' = claimed
          \/ RestoredTo(Running.saved)
    /\ (LeavesAHook /\ ~InHook')
       => IF last'.result = "ok"
          THEN balances' = balances /\ claimed' = claimed
          ELSE RestoredTo(Running.saved) /\ Depth = 1

C23_HookSeesWrittenState == [][C23_Step]_vars

\* the heir contract, while being paid estate 0, has called
\* claimAllocation(0) again and was refused
C23_Witness ==
    /\ InHook
    /\ BeingPaid(0, "c1")
    /\ last.inner.op = "claimAllocation"
    /\ last.inner.estateId = 0
    /\ last.inner.result = "AlreadyClaimed"

\* inside the payout of estate 0 the heir claimed estate 1 and is inside
\* that payout's hook as well
C23_WitnessNested ==
    /\ InHook
    /\ BeingPaid(0, "c1")
    /\ BeingPaid(1, "c1")

\* inside the payout hook of estate 0 the heir has moved tokens on to "a1"
C23_WitnessTokenReentered ==
    /\ InHook
    /\ BeingPaid(0, "c1")
    /\ last.inner.op = "confidentialTransfer"
    /\ last.inner.to = "a1"
    /\ last.inner.result = "ok"

\* a payout whose hook refused: the claim is rolled back and the heir,
\* heir of both finalized estates, has claimed neither
C23_WitnessRolledBack ==
    /\ ~InHook
    /\ last.op = "claimAllocation"
    /\ last.result = "TransferToNonReceiver"
    /\ ~claimed[0]["c1"] /\ ~claimed[1]["c1"]
    /\ estates[0].finalized /\ estates[1].finalized

----------------------------------------------------------------------------
(* C24: removeHeir never subtracts more than is present.  In every         *)
(* reachable state of an open estate, for every current heir h the         *)
(* plaintext of totalAllocated[e] is at least the plaintext of             *)
(* allocations[e][h].                                                      *)
(*                                                                         *)
(* addHeir adds the allocation with FHE.add and no bound on the sum: the   *)
(* total of two heirs can wrap and be smaller than either allocation.      *)

\* the estate exists and is not finalized
IsOpen(e) == EstateExists(e) /\ ~estates[e].finalized

C24_Original ==
    \A e \in EstateIds, h \in Addrs :
        (IsOpen(e) /\ isHeirOf[e][h])
        => PlainOf(totalAllocated[e]) >= PlainOf(allocations[e][h])

----------------------------------------------------------------------------
(* C25: a claim payout never subtracts more than the estate contract       *)
(* holds.  Whenever claimAllocation succeeds, the token balance of the     *)
(* estate contract before the payout is at least the claimed allocation.   *)
(*                                                                         *)
(* claimAllocation compares the allocation with nothing: the payout is     *)
(* FHE.sub on the contract's token balance, which wraps.                   *)

C25_Original ==
    [][\A e \in EstateIds, heir \in Users :
          ClaimSucceeds(e, heir)
          => BalanceOf(Dist) >= PlainOf(allocations[e][heir])]_vars

----------------------------------------------------------------------------
(* C26: ACL grants only accumulate.  Once (handle, principal) is granted   *)
(* it stays granted in every later state.  After removeHeir(e, h) the heir *)
(* h still holds the grant on the allocation handle stored for them before *)
(* the removal, while the stored allocation is a different, new handle of  *)
(* zero.                                                                   *)

C26_Step ==
    /\ acl \subseteq acl'
    /\ \A e \in EstateIds, h \in Addrs :
          HeirRemoved(e, h)
          => /\ <<allocations[e][h], h>> \in acl
             /\ <<allocations[e][h], h>> \in acl'
             /\ allocations'[e][h] # allocations[e][h]
             /\ IsInitialized(allocations'[e][h])
             /\ allocations'[e][h] \notin DOMAIN plain
             /\ Plain(FHE', allocations'[e][h]) = 0

C26_GrantsOnlyAccumulate == [][C26_Step]_vars

\* a heir with a non-zero allocation was removed: the allocation stored
\* for them is a zero handle they hold no grant on, and the old handle is
\* one they can still decrypt
C26_Witness ==
    /\ last.op = "removeHeir"
    /\ last.result = "ok"
    /\ PlainOf(allocations[last.estateId][last.heir]) = 0
    /\ <<allocations[last.estateId][last.heir], last.heir>> \notin acl
    /\ \E h \in DOMAIN plain :
          /\ h[1] = Dist /\ h[2] = last.estateId
          /\ plain[h] # 0
          /\ <<h, last.heir>> \in acl
          /\ last.heir # estates[last.estateId].executor

----------------------------------------------------------------------------
(* C27: grants are exhaustive after every successful mutation.  Every      *)
(* handle stored is granted to each principal expected to read it: the     *)
(* handles getContractBalance(e), getTotalAllocated(e) and                 *)
(* getAllocation(e, a) return, for any address a, to the executor of e;    *)
(* each live allocation to its heir; each token balance to its holder.     *)
(*                                                                         *)
(* removeHeir stores FHE.asEuint64(0) as the removed heir's allocation and *)
(* grants it to nobody: getAllocation hands the executor a handle the      *)
(* executor cannot decrypt.                                                *)

\* the initialised handle h is granted to principal p
GrantedIfStored(h, p) == IsInitialized(h) => <<h, p>> \in acl

C27_Original ==
    /\ \A e \in EstateIds :
          EstateExists(e)
          => /\ GrantedIfStored(estateBalances[e], estates[e].executor)
             /\ GrantedIfStored(totalAllocated[e], estates[e].executor)
             /\ \A a \in Addrs :
                   /\ GrantedIfStored(allocations[e][a], estates[e].executor)
                   /\ isHeirOf[e][a] => GrantedIfStored(allocations[e][a], a)
    /\ \A a \in Addrs : GrantedIfStored(balances[a], a)

----------------------------------------------------------------------------
(* C28: the reverse indices track the ledger.  In every reachable state    *)
(* executorEstates[a] lists exactly the ids of the estates whose executor  *)
(* is a, each once, and heirEstates[h] contains e exactly when             *)
(* isHeirOf[e][h], each id at most once, re-adding a removed heir          *)
(* included.                                                               *)

\* no element occurs twice in the array
NoDuplicates(arr) ==
    \A i, j \in 1 .. Len(arr) : arr[i] = arr[j] => i = j

C28_ReverseIndices ==
    \A a \in Addrs :
        /\ Range(executorEstates[a]) =
               {e \in EstateIds : EstateExists(e) /\ estates[e].executor = a}
        /\ NoDuplicates(executorEstates[a])
        /\ Range(heirEstates[a]) = {e \in EstateIds : isHeirOf[e][a]}
        /\ NoDuplicates(heirEstates[a])

\* the heir of estate 0 was removed and added again with a new allocation
\* handle, and by then was a heir of estate 1 as well
C28_Witness ==
    /\ last.op = "addHeir"
    /\ last.result = "ok"
    /\ last.estateId = 0
    /\ last.heir = "c1"
    /\ allocations[0]["c1"] # <<Dist, 0, -1>>
    /\ heirEstates["c1"] = <<1, 0>>

\* a heir of two estates was removed from the first: the last id of the
\* index took the place of the first
C28_WitnessSwap ==
    /\ last.op = "removeHeir"
    /\ last.result = "ok"
    /\ last.estateId = 0
    /\ heirEstates[last.heir] = <<1>>
    /\ executorEstates["a1"] = <<0, 1>>

----------------------------------------------------------------------------
(* C29: active is never set to false.  createEstate sets it and no         *)
(* operation clears it: a created estate is active in every reachable      *)
(* state, and no call naming a created estate fails with EstateNotActive.  *)

C29_Step ==
    /\ \A e \in EstateIds :
          /\ estates[e].active => estates'[e].active
          /\ EstateExists(e)' => estates'[e].active
    /\ (last'.op \in EstateOps /\ EstateExists(last'.estateId))
       => last'.result # "EstateNotActive"

C29_ActiveIsNeverCleared ==
    /\ \A e \in EstateIds : EstateExists(e) => estates[e].active
    /\ [][C29_Step]_vars

\* a second claim of a finalized estate got past the estateActive modifier,
\* to the AlreadyClaimed check
C29_Witness ==
    /\ last.op = "claimAllocation"
    /\ last.result = "AlreadyClaimed"
    /\ estates[last.estateId].finalized
    /\ estates[last.estateId].active
    /\ claimed[last.estateId][last.sender]

----------------------------------------------------------------------------
(* C30: a failed claim leaves no partial mutation.  When the token         *)
(* transfer of claimAllocation fails because the hook of the heir, a       *)
(* contract, does not acknowledge, claimed[e][h] is false afterwards, no   *)
(* token balance differs from what it was before the claim, whatever was   *)
(* written while the hook ran, and the heir can still claim: the same      *)
(* claim passes every check again and is paid when the hook acknowledges.  *)

\* the step ends a claimAllocation whose payout hook refused
ClaimFails ==
    /\ InHook
    /\ ~InHook'
    /\ last'.op = "claimAllocation"
    /\ last'.result = "TransferToNonReceiver"

\* the storage when the transaction in progress started
AtCallStart == last.stack[1].saved

\* the claim of estate e by heir would pass every check of claimAllocation
\* and of the token in the state after the step
CouldClaimAfter(e, heir) == ClaimWrites(heir, e).result' = "ok"

C30_Step ==
    ClaimFails
    => /\ ~claimed'[last'.estateId][last'.sender]
       /\ claimed' = AtCallStart.claimed
       /\ balances' = AtCallStart.balances
       /\ \A a \in Addrs :
             BalanceOf(a)' = Plain(AtCallStart.fhe, AtCallStart.balances[a])
       /\ acl' = AtCallStart.fhe.acl
       /\ \A e \in EstateIds, heir \in Users :
             (last'.estateId = e /\ last'.sender = heir)
             => CouldClaimAfter(e, heir)

C30_FailedClaimRollsBack == [][C30_Step]_vars

\* the hook of c1 refused the payout of estate 0: c1 has not claimed and
\* holds the one token it held before, not the allocation
C30_Witness ==
    /\ last.op = "claimAllocation"
    /\ last.sender = "c1"
    /\ last.estateId = 0
    /\ last.result = "TransferToNonReceiver"
    /\ ~claimed[0]["c1"]
    /\ BalanceOf("c1") = 1

\* a claim of c1 that its hook acknowledged
C30_WitnessClaimed ==
    /\ last.op = "claimAllocation"
    /\ last.sender = "c1"
    /\ last.result = "ok"
    /\ claimed[last.estateId]["c1"]

----------------------------------------------------------------------------
(* C31: removeHeir removes by swap-with-last.  If the removed heir is at   *)
(* position i of the heir list, afterwards position i holds the heir that  *)
(* was last, unless i was the last position; all other heirs keep their    *)
(* positions; the list is exactly one shorter and holds the same set of    *)
(* remaining heirs.                                                        *)

\* the position of heir in the heir list of estate e
PositionOf(e, heir) ==
    CHOOSE i \in 1 .. Len(estateHeirs[e]) : estateHeirs[e][i] = heir

C31_Step ==
    \A e \in EstateIds, heir \in Addrs :
        HeirRemoved(e, heir)
        => LET old == estateHeirs[e]
               i == PositionOf(e, heir)
           IN /\ heir \in Range(old)
              /\ Len(estateHeirs'[e]) = Len(old) - 1
              /\ i < Len(old) => estateHeirs'[e][i] = old[Len(old)]
              /\ \A j \in 1 .. Len(old) - 1 :
                    j # i => estateHeirs'[e][j] = old[j]
              /\ Range(estateHeirs'[e]) = Range(old) \ {heir}

C31_SwapWithLast == [][C31_Step]_vars

\* the first of four heirs was removed: the fourth took its place and the
\* two in between stayed
C31_Witness ==
    /\ last.op = "removeHeir"
    /\ last.result = "ok"
    /\ last.heir = "c1"
    /\ Len(estateHeirs[0]) = 3
    /\ estateHeirs[0][1] # "c1"

\* the last heir of the list was removed
C31_WitnessLast ==
    /\ last.op = "removeHeir"
    /\ last.result = "ok"
    /\ last.heir # "c1"
    /\ estateHeirs[0] = <<"c1">>

----------------------------------------------------------------------------
(* C32: the multi-estate contract strictly generalizes the single-estate   *)
(* contract.  Restricted to one estate e, every addHeir, removeHeir,       *)
(* finalizeEstate, claimAllocation and incoming token transfer is accepted *)
(* or rejected by the multi-estate contract as the single-estate contract  *)
(* accepts or rejects it, with the same error, and leaves corresponding    *)
(* values of finalized, heirs, isHeir, claimed, balance and                *)
(* totalAllocated.                                                         *)
(*                                                                         *)
(* A token transfer to the single-estate contract is acknowledged by its   *)
(* hook, which ignores the payload; the multi-estate hook rejects the      *)
(* empty payload _transfer hands it, and the transfer reverts.             *)

\* the outcome r of the single-estate contract is the outcome of the step
\* on estate e
SameOutcome(r, e) == r.result = last'.result /\ r.state = SingleView(e)'

\* the step is the call `op` of the ledger naming estate e
IsLedgerCall(op, e) == last'.op = op /\ last'.estateId = e

\* the step is a call of the receiver hook that names estate e or, its
\* payload holding no id, names none
IsHookCallFor(e) ==
    /\ last'.op = "onERC7984Received"
    /\ (Encodes(last'.data, e) \/ last'.data.len < 32)

\* the error of the token's own checks in the transfer call of the step
TokenChecks ==
    IF last'.op = "confidentialTransferAndCall" THEN "NoSuchFunction"
    ELSE IF last'.to = ZeroAddr THEN "ZeroAddress"
    ELSE IF last'.op = "confidentialTransferFrom"
    THEN TransferFromError(last'.sender, last'.from, last'.to)
    ELSE "ok"

C32_Corresponds(e) ==
    LET s == SingleView(e)
    IN IF IsLedgerCall("addHeir", e)
       THEN SameOutcome(SingleAddHeir(s, last'.sender, last'.heir,
                            Plain(FHE', allocations'[e][last'.heir])), e)
       ELSE IF IsLedgerCall("removeHeir", e)
       THEN SameOutcome(SingleRemoveHeir(s, last'.sender, last'.heir), e)
       ELSE IF IsLedgerCall("finalizeEstate", e)
       THEN SameOutcome(SingleFinalizeEstate(s, last'.sender), e)
       ELSE IF IsLedgerCall("claimAllocation", e)
       THEN \E ack \in BOOLEAN :
               SameOutcome(SingleClaimAllocation(s, last'.sender, ack), e)
       ELSE IF IsHookCallFor(e)
       THEN SameOutcome(SingleOnERC7984Received(s, last'.sender,
                                                AmountMoved), e)
       ELSE IF IsTransferTo(Dist)
       THEN SameOutcome(SingleTokenTransferIn(s, TokenChecks, AmountMoved),
                        e)
       ELSE SingleView(e)' = s

C32_Original ==
    [][\A e \in EstateIds : EstateExists(e) => C32_Corresponds(e)]_vars

----------------------------------------------------------------------------
(* C33: in every reachable state, claimed[e][h] implies that estate e is   *)
(* finalized and h is a current heir of e.  No claim succeeds on an open   *)
(* estate, and a heir removed before finalization never appears as having  *)
(* claimed.                                                                *)

C33_ClaimedOnlyFinalizedHeirs ==
    /\ \A e \in EstateIds, h \in Addrs :
          claimed[e][h] => estates[e].finalized /\ isHeirOf[e][h]
    /\ [][\A e \in EstateIds, h \in Users :
             ClaimSucceeds(e, h) => estates[e].finalized /\ isHeirOf[e][h]]_vars

\* a heir has claimed from an estate another heir was removed from before
\* it was finalized; the removed heir has not claimed
C33_Witness ==
    \E e \in EstateIds, h, r \in Users :
        /\ claimed[e][h]
        /\ WasRemoved(e, r)
        /\ ~claimed[e][r]

----------------------------------------------------------------------------
(* C34: estates are isolated from one another.  A successful or failed     *)
(* createEstate, addHeir, removeHeir, finalizeEstate, claimAllocation or   *)
(* deposit for estate e leaves unchanged, for every other estate, the      *)
(* executor, the finalized flag, the heir list, isHeirOf, the allocations, *)
(* the claimed flags, the balance and totalAllocated.                      *)

\* everything the ledger stores for estate e, with the plaintexts behind
\* its handles
EstateRecord(e) ==
    [estate |-> estates[e],
     heirs |-> estateHeirs[e],
     isHeirOf |-> isHeirOf[e],
     allocations |-> allocations[e],
     claimed |-> claimed[e],
     balance |-> estateBalances[e],
     totalAllocated |-> totalAllocated[e],
     plain |-> [a \in Addrs |-> PlainOf(allocations[e][a])],
     plainBalance |-> PlainOf(estateBalances[e]),
     plainTotal |-> PlainOf(totalAllocated[e])]

\* the step is a call of the ledger for estate e: an operation naming it,
\* the createEstate that returned it, or a deposit whose payload names it
IsCallFor(e) ==
    \/ last'.op \in EstateOps \cup {"createEstate"} /\ last'.estateId = e
    \/ last'.op = "onERC7984Received" /\ Encodes(last'.data, e)

C34_Step ==
    \A e \in EstateIds :
        ~IsCallFor(e) => EstateRecord(e)' = EstateRecord(e)

C34_EstatesAreIsolated == [][C34_Step]_vars

\* a deposit was routed to estate 1 while estate 0, finalized, holds
\* nothing
C34_Witness ==
    /\ last.op = "onERC7984Received"
    /\ last.result = "ok"
    /\ Encodes(last.data, 1)
    /\ PlainOf(estateBalances[1]) > 0
    /\ estates[0].finalized
    /\ ~estates[1].finalized
    /\ PlainOf(estateBalances[0]) = 0

----------------------------------------------------------------------------
(* C35: per-estate solvency.  For every estate e, the sum of the           *)
(* allocations paid out by successful claims on e never exceeds the sum of *)
(* the amounts deposited for e, its estate balance.                        *)
(*                                                                         *)
(* Neither finalizeEstate nor claimAllocation compares an allocation with  *)
(* the estate's balance: a claim is paid from an estate nothing was        *)
(* deposited for.                                                          *)

\* the heirs that have been paid their allocation of estate e
PaidHeirs(e) == {h \in Addrs : claimed[e][h]}

C35_Original ==
    \A e \in EstateIds :
        SumAllocations(e, PaidHeirs(e)) <= PlainOf(estateBalances[e])

----------------------------------------------------------------------------
(* C36: claims are always available after finalization.  In a finalized    *)
(* estate, a claimAllocation call by a current heir who has not claimed    *)
(* and whose address has no code succeeds, whatever other heirs have or    *)
(* have not claimed; so every such heir that keeps calling claimAllocation *)
(* eventually has claimed = true.                                          *)

\* heir is a current heir of the finalized estate e and has not claimed
Claimable(e, heir) ==
    /\ estates[e].finalized
    /\ isHeirOf[e][heir]
    /\ ~claimed[e][heir]

\* claimAllocation(e) called by heir now would pass the checks of the
\* ledger and of the token
ClaimWouldSucceed(e, heir) ==
    /\ ClaimError(heir, e) = "ok"
    /\ ConfidentialTransferFrom([balances |-> balances, fhe |-> FHE], Dist,
                                Dist, heir, ClaimAmount(e, heir),
                                FALSE).result = "ok"

C36_WitnessAfterOther ==
    /\ last.op = "claimAllocation"
    /\ last.sender = "a1"
    /\ claimed[0]["a1"]
    /\ claimed[0]["c1"]

----------------------------------------------------------------------------
(* C37: the checks of addHeir, removeHeir and claimAllocation run in a     *)
(* fixed order, and the first one that fails names the error: for addHeir  *)
(* OnlyExecutor, EstateAlreadyFinalized, EstateNotActive, ZeroAddress,     *)
(* AlreadyHeir; for removeHeir OnlyExecutor, EstateAlreadyFinalized,       *)
(* EstateNotActive, NotHeir; for claimAllocation EstateNotFinalized,       *)
(* EstateNotActive, NotHeir, AlreadyClaimed.  removeHeir has no            *)
(* ZeroAddress check: the zero address is never an heir, and removing it   *)
(* reports NotHeir.                                                        *)

\* the error of the first check of the list that fails, "ok" when none does;
\* a check is a pair <<failed, error>>
RECURSIVE FirstFailing(_)
FirstFailing(checks) ==
    IF checks = <<>> THEN "ok"
    ELSE IF checks[1][1] THEN checks[1][2]
    ELSE FirstFailing(Tail(checks))

\* the three modifiers of the heir management calls, on the state the call
\* starts in
ModifierChecks(sender, e) ==
    <<<<sender # estates[e].executor, "OnlyExecutor">>,
      <<estates[e].finalized, "EstateAlreadyFinalized">>,
      <<~estates[e].active, "EstateNotActive">>>>

AddHeirChecks(sender, e, heir) ==
    ModifierChecks(sender, e)
        \o <<<<heir = ZeroAddr, "ZeroAddress">>,
             <<isHeirOf[e][heir], "AlreadyHeir">>>>

RemoveHeirChecks(sender, e, heir) ==
    ModifierChecks(sender, e) \o <<<<~isHeirOf[e][heir], "NotHeir">>>>

\* the order the statement gives for removeHeir
RemoveHeirChecksWithZero(sender, e, heir) ==
    ModifierChecks(sender, e)
        \o <<<<heir = ZeroAddr, "ZeroAddress">>,
             <<~isHeirOf[e][heir], "NotHeir">>>>

ClaimChecks(sender, e) ==
    <<<<~estates[e].finalized, "EstateNotFinalized">>,
      <<~estates[e].active, "EstateNotActive">>,
      <<~isHeirOf[e][sender], "NotHeir">>,
      <<claimed[e][sender], "AlreadyClaimed">>>>

\* the call of the step is op with these arguments
CallIs(op, sender, e, heir) ==
    /\ last'.op = op
    /\ last'.sender = sender
    /\ last'.estateId = e
    /\ last'.heir = heir

\* addHeir and claimAllocation report the first failing check
C37_AddAndClaimOrder ==
    \A sender \in Users, e \in EstateIds :
        /\ \A heir \in HeirArgs :
              CallIs("addHeir", sender, e, heir)
                  => last'.result = FirstFailing(AddHeirChecks(sender, e, heir))
        /\ CallIs("claimAllocation", sender, e, sender)
              => last'.result \in {FirstFailing(ClaimChecks(sender, e)),
                                   "TransferToNonReceiver"}
        /\ (CallIs("claimAllocation", sender, e, sender)
              /\ last'.result = "TransferToNonReceiver")
              => FirstFailing(ClaimChecks(sender, e)) = "ok"

C37_RemoveOrder ==
    \A sender \in Users, e \in EstateIds, heir \in HeirArgs :
        CallIs("removeHeir", sender, e, heir)
            => last'.result = FirstFailing(RemoveHeirChecks(sender, e, heir))

C37_RemoveOrderWithZero ==
    \A sender \in Users, e \in EstateIds, heir \in HeirArgs :
        CallIs("removeHeir", sender, e, heir)
            => last'.result
                   = FirstFailing(RemoveHeirChecksWithZero(sender, e, heir))

\* the statement as given: removeHeir checks the zero address before NotHeir
C37_Original ==
    [][C37_AddAndClaimOrder /\ C37_RemoveOrderWithZero]_vars

C37_ChecksInOrder == [][C37_AddAndClaimOrder /\ C37_RemoveOrder]_vars

\* someone other than the executor called addHeir on a finalized estate for
\* an account that is an heir already, and got OnlyExecutor
C37_Witness ==
    /\ last.op = "addHeir"
    /\ last.result = "OnlyExecutor"
    /\ estates[last.estateId].finalized
    /\ isHeirOf[last.estateId][last.heir]

\* an account that is no heir called claimAllocation on an open estate and
\* got EstateNotFinalized
C37_WitnessClaim ==
    /\ last.op = "claimAllocation"
    /\ last.result = "EstateNotFinalized"
    /\ EstateExists(last.estateId)
    /\ ~isHeirOf[last.estateId][last.sender]

\* the executor of an open estate called removeHeir for the zero address
\* and got NotHeir
C37_WitnessRemoveZero ==
    /\ last.op = "removeHeir"
    /\ last.heir = ZeroAddr
    /\ last.sender = estates[last.estateId].executor
    /\ last.result = "NotHeir"

----------------------------------------------------------------------------
(* C38: a contract that computes (add/sub) on a ciphertext handle it       *)
(* received from the other contract holds an ACL grant on that handle when *)
(* it computes: the token on the allocation handle that claimAllocation    *)
(* passes to confidentialTransferFrom, the estate contract on the amount   *)
(* handle passed to onERC7984Received.                                     *)

\* the step is a claimAllocation that reached _transfer: the checks of the
\* ledger and of confidentialTransferFrom passed, so the token subtracted
\* and added the allocation handle
TokenComputesOnAllocation(e, heir) ==
    /\ IsCall("claimAllocation")
    /\ last'.estateId = e
    /\ last'.sender = heir
    /\ last'.result \in {"ok", "TransferToNonReceiver"}

\* the step is an onERC7984Received that passed its checks, so the estate
\* contract added the amount handle to the estate balance
LedgerComputesOnAmount ==
    /\ IsCall("onERC7984Received")
    /\ last'.result = "ok"

\* the allocation handle exists before the claim, and the grant is looked
\* up in the state the call starts in: claimAllocation grants nothing
\* before it calls the token.  The amount handle of a deposit is produced
\* by the transfer that calls the hook, so its grant is looked up in the
\* state the call leaves; the hook grants nothing on it
C38_Step ==
    /\ \A e \in EstateIds, heir \in Users :
          TokenComputesOnAllocation(e, heir)
              => <<allocations[e][heir], Token>> \in acl
    /\ LedgerComputesOnAmount => <<last'.amount, Dist>> \in acl'

C38_Original == [][C38_Step]_vars

----------------------------------------------------------------------------
(* C39: in the useInheritance hook, however selectEstate calls interleave  *)
(* with the answers to pending loadEstateData requests, a currentEstate    *)
(* that is not null has the id selectedEstateId, and the role and heir     *)
(* list shown are those of the selected estate.                            *)

\* the estate shown is the estate selected
C39_Original ==
    (Mounted /\ last.currentEstate # NoEstateInfo)
        => last.currentEstate.id = last.selectedEstateId

====
